---- MODULE Spec2Model ----
(***************************************************************************)
(* Model of the Palladium language server (src/server/src/server.ts):      *)
(* the three schema snapshots (abilities, conditions, energy renderers),   *)
(* their asynchronous reloads, the per-kind watch state (fs watcher,       *)
(* watch target, debounce timer) and the diagnostics published for the     *)
(* open documents.                                                         *)
(*                                                                         *)
(* The server is single threaded: every handler (and every continuation    *)
(* of an async function after its last await) runs to completion, so each  *)
(* is one action.  A reload is two steps: its start (the call, up to the   *)
(* first await) and its completion (everything after the awaited file      *)
(* I/O: publishing the snapshot, configureWatcher, validateAllDocuments).  *)
(* The file system is the environment: what a reload's I/O returns is      *)
(* drawn at its completion.                                                *)
(***************************************************************************)
EXTENDS Integers, Sequences, FiniteSets, TLC

\* ------------------------------------------------------------------ bounds
MaxBlocks == 2      \* entity blocks in one schema source file
MaxInflight == 2    \* debounce-started reloads awaiting their I/O at once
MaxChanges == 1
MaxStrLen == 2
MaxHtmlBlocks == 2
MaxProps == 3     \* file changes in one watched-files notification

\* ------------------------------------------------------------- basic values
Kinds == {"ability", "condition", "energy_renderer"}

Undefined == <<>>           \* an absent path (undefined)
Null == [kind |-> "null", path |-> Undefined]   \* a null WatchTarget
NoWatcher == 0              \* state.watcher === null
NoTimer == 0                \* state.timer === null

DocsRoot == <<"docs">>
Join(dir, name) == Append(dir, name)

\* initializationOptions the server may be started with: the two shapes the
\* client sends (no documentation folder found, or the folder with the
\* conventional ability and condition file names)
InitOptionsSet ==
    { [docsRoot |-> Undefined, abilitiesFile |-> Undefined,
       conditionsFile |-> Undefined, energyRendersFile |-> Undefined],
      [docsRoot |-> DocsRoot, abilitiesFile |-> Join(DocsRoot, "abilities.html"),
       conditionsFile |-> Join(DocsRoot, "conditions.html"),
       energyRendersFile |-> Undefined] }

\* paths a watched-files notification may report
ChangedPaths ==
    { Join(DocsRoot, "abilities.html"), Join(DocsRoot, "conditions.html"),
      Join(DocsRoot, "energy_render_beams.html"), Join(DocsRoot, "notes.html"),
      <<"elsewhere", "readme.html">> }

\* ------------------------------------------------------------ schema records
\* An AbilityRecord is modelled by its id and the key set of its fieldIndex.
Rec(id, fields) == [id |-> id, fields |-> fields]

\* entity blocks a schema source of each kind may contain
Blocks(kind) ==
    CASE kind = "ability" ->
            { Rec("a:x", {}), Rec("a:x", {"power"}) }
      [] kind = "condition" -> { Rec("c:x", {"value"}) }
      [] kind = "energy_renderer" -> { Rec("e:x", {"size"}) }

RECURSIVE SeqsUpTo(_, _)
SeqsUpTo(S, n) ==
    IF n = 0 THEN { <<>> }
    ELSE LET shorter == SeqsUpTo(S, n - 1)
         IN shorter \cup { Append(s, x) : s \in { t \in shorter : Len(t) = n - 1 }, x \in S }

\* what the blocks of a source file parse to, before deduplication
RawLoads(kind) == SeqsUpTo(Blocks(kind), MaxBlocks)

CreateFallbackAbilities == << Rec("palladium:dummy", {"power", "cooldown"}) >>

CreateFallbackEnergyRenderers ==
    << Rec("palladium:laser",
           {"type", "body_part", "glow_color", "core_color", "glow_opacity",
            "core_opacity", "size", "bloom", "rotation", "rotation_speed",
            "offset", "normal_transparency"}),
       Rec("palladium:lightning",
           {"type", "body_part", "glow_color", "core_color", "glow_opacity",
            "core_opacity", "size", "bloom", "rotation", "rotation_speed",
            "offset", "normal_transparency", "segments", "frequency", "spread"}) >>

Ids(items) == { items[n].id : n \in DOMAIN items }

LastIndexOf(items, id) ==
    CHOOSE n \in DOMAIN items :
        /\ items[n].id = id
        /\ \A m \in DOMAIN items : items[m].id = id => m <= n

\* a faulty dedupeAbilities: the first block of an id is kept
DedupeAbilitiesFirstWins(items) ==
    LET firsts == SelectSeq([n \in DOMAIN items |-> n],
                            LAMBDA n : \A m \in 1..(n - 1) : items[m].id # items[n].id)
    IN [j \in DOMAIN firsts |-> items[firsts[j]]]

\* a Map keeps a key at the position of its first insertion and the value of
\* its last one; Array.from(map.values()) lists the values in key order
DedupeAbilities(items) ==
    LET firsts == SelectSeq([n \in DOMAIN items |-> n],
                            LAMBDA n : \A m \in 1..(n - 1) : items[m].id # items[n].id)
    IN [j \in DOMAIN firsts |-> items[LastIndexOf(items, items[firsts[j]].id)]]

BuildAbilityMap(items) ==
    [id \in Ids(items) |-> items[LastIndexOf(items, id)]]

\* ------------------------------------------------------------------- paths
\* Model paths are absolute, lower-case segment sequences, the form
\* normalizeFsPath gives every path before it is compared.
IsUnder(p, folder) ==
    /\ Len(p) > Len(folder)
    /\ SubSeq(p, 1, Len(folder)) = folder

MatchesTarget(pathValue, target) ==
    IF target = Null THEN FALSE
    ELSE IF target.kind = "file" THEN pathValue = target.path
    ELSE pathValue = target.path \/ IsUnder(pathValue, target.path)

MatchesExpectedPath(pathValue, expected) ==
    IF expected = Undefined THEN FALSE ELSE pathValue = expected

GetAbilityFilePath(config) ==
    IF config.abilitiesFile # Undefined THEN config.abilitiesFile
    ELSE IF config.docsRoot # Undefined THEN Join(config.docsRoot, "abilities.html")
    ELSE Undefined

GetConditionFilePath(config) ==
    IF config.conditionsFile # Undefined THEN config.conditionsFile
    ELSE IF config.docsRoot # Undefined THEN Join(config.docsRoot, "conditions.html")
    ELSE Undefined

\* the energy-renderer source candidates, in the order resolveEnergyRenderers
\* tries them
EnergyRendererCandidates(config) ==
    (IF config.energyRendersFile # Undefined THEN << config.energyRendersFile >> ELSE << >>)
    \o (IF config.docsRoot # Undefined
        THEN << Join(config.docsRoot, "energy_render_beams.html"),
                Join(config.docsRoot, "energy_beam_renderers.html") >>
        ELSE << >>)

FolderTarget(config) ==
    IF config.docsRoot # Undefined THEN [kind |-> "folder", path |-> config.docsRoot]
    ELSE Null

FileTarget(p) == [kind |-> "file", path |-> p]

\* ------------------------------------------------------- schema resolution
\* What the file system answers to one reload: which candidate source files
\* exist (fileExists), whether stat/readFile of the chosen file succeeds, the
\* entity blocks its HTML holds, and whether resolution throws.
CandidateFiles(kind, config) ==
    CASE kind = "ability" ->
            IF GetAbilityFilePath(config) = Undefined THEN {} ELSE { GetAbilityFilePath(config) }
      [] kind = "condition" ->
            IF GetConditionFilePath(config) = Undefined THEN {} ELSE { GetConditionFilePath(config) }
      [] kind = "energy_renderer" ->
            { EnergyRendererCandidates(config)[n] : n \in DOMAIN EnergyRendererCandidates(config) }

IoOutcomes(kind, config) ==
    { [files |-> {}, readable |-> FALSE, raw |-> << >>, throws |-> TRUE] }
    \cup
    { [files |-> fs, readable |-> TRUE, raw |-> raw, throws |-> FALSE] :
        fs \in SUBSET CandidateFiles(kind, config), raw \in RawLoads(kind) }
    \cup
    { [files |-> fs, readable |-> FALSE, raw |-> << >>, throws |-> FALSE] :
        fs \in SUBSET CandidateFiles(kind, config) }

\* The file system as a session sees it.  The source of one kind (volatile) is
\* edited, created, deleted or unreadable at will; the sources of the other
\* kinds stay in place, readable, with one entity block each.
StableOutcome(kind, config) ==
    [files |-> CandidateFiles(kind, config), readable |-> TRUE,
     raw |-> << CHOOSE b \in Blocks(kind) : b.fields # {} >>, throws |-> FALSE]

ParseAbilityHtml(raw) == DedupeAbilities(raw)

\* stat/readFile failures are caught and give no entries
LoadFromFile(io) ==
    IF io.readable THEN ParseAbilityHtml(io.raw) ELSE << >>

ResolveAbilities(config, io) ==
    LET abilityFile == GetAbilityFilePath(config)
    IN IF abilityFile # Undefined /\ abilityFile \in io.files
       THEN [entries |-> LoadFromFile(io), watchTarget |-> FileTarget(abilityFile)]
       ELSE LET fallbackList == LoadFromFile(io)   \* the bundled examples/abilities.html
            IN [entries |-> IF Len(fallbackList) > 0 THEN fallbackList
                            ELSE CreateFallbackAbilities,
                watchTarget |-> FolderTarget(config)]

ResolveConditions(config, io) ==
    LET conditionFile == GetConditionFilePath(config)
    IN IF conditionFile # Undefined /\ conditionFile \in io.files
       THEN [entries |-> LoadFromFile(io), watchTarget |-> FileTarget(conditionFile)]
       ELSE [entries |-> << >>, watchTarget |-> FolderTarget(config)]

ResolveEnergyRenderers(config, io) ==
    LET candidates == EnergyRendererCandidates(config)
        found == { n \in DOMAIN candidates : candidates[n] \in io.files }
    IN IF found # {}
       THEN LET first == CHOOSE n \in found : \A m \in found : n <= m
            IN [entries |-> LoadFromFile(io), watchTarget |-> FileTarget(candidates[first])]
       ELSE [entries |-> CreateFallbackEnergyRenderers, watchTarget |-> FolderTarget(config)]

\* -------------------------------------------------------------- watch state
\* The watch state of one kind together with the runtime objects it owns:
\*   state    the WatchState record (watcher and timer are handles, 0 = null)
\*   watchers the open fs watchers created for the kind, each with the target
\*            its callback closed over
\*   timers   the armed (not yet fired, not cleared) timeouts of the kind
Fresh(used) ==
    CHOOSE n \in 1..(Cardinality(used) + 1) :
        /\ n \notin used
        /\ \A m \in 1..(n - 1) : m \in used

DisposeWatcher(rt) ==
    LET closed == IF rt.state.watcher # NoWatcher
                  THEN [rt EXCEPT !.watchers = { w \in @ : w.id # rt.state.watcher },
                                  !.state.watcher = NoWatcher]
                  ELSE rt
        cleared == IF closed.state.timer # NoTimer
                   THEN [closed EXCEPT !.timers = @ \ { closed.state.timer },
                                       !.state.timer = NoTimer]
                   ELSE closed
    IN [cleared EXCEPT !.state.target = Null]

\* a faulty configureWatcher: a failed fs.watch leaves a dead handle in the state
ConfigureWatcherKeepsDeadHandle(rt, target, watchOk) ==
    LET state == rt.state
        disposed ==
            IF /\ state.watcher # NoWatcher
               /\ \/ target = Null
                  \/ state.target = Null
                  \/ target.path # state.target.path
                  \/ target.kind # state.target.kind
            THEN DisposeWatcher(rt)
            ELSE rt
        retargeted == [disposed EXCEPT !.state.target = target]
    IN IF target = Null \/ retargeted.state.watcher # NoWatcher
       THEN retargeted
       ELSE LET id == Fresh({ w.id : w \in retargeted.watchers })
            IN IF watchOk
               THEN [retargeted EXCEPT
                        !.state.watcher = id,
                        !.watchers = @ \cup { [id |-> id, target |-> target] }]
               ELSE [retargeted EXCEPT !.state.watcher = id]

\* a faulty configureWatcher: a changed target does not dispose the old watcher
ConfigureWatcherNoDispose(rt, target, watchOk) ==
    LET retargeted == [rt EXCEPT !.state.target = target]
    IN IF target = Null THEN retargeted
       ELSE IF watchOk
            THEN LET id == Fresh({ w.id : w \in retargeted.watchers })
                 IN [retargeted EXCEPT
                        !.state.watcher = id,
                        !.watchers = @ \cup { [id |-> id, target |-> target] }]
            ELSE retargeted

\* a faulty configureWatcher: while a watcher is open, the state keeps the
\* target it has (the first reload to open a watcher wins)
ConfigureWatcherFirstTargetWins(rt, target, watchOk) ==
    IF rt.state.watcher # NoWatcher
    THEN rt
    ELSE LET retargeted == [rt EXCEPT !.state.target = target]
         IN IF target = Null \/ ~watchOk
            THEN retargeted
            ELSE LET id == Fresh({ w.id : w \in retargeted.watchers })
                 IN [retargeted EXCEPT
                        !.state.watcher = id,
                        !.watchers = @ \cup { [id |-> id, target |-> target] }]

\* watchOk: whether fs.watch succeeds
ConfigureWatcher(rt, target, watchOk) ==
    LET state == rt.state
        disposed ==
            IF /\ state.watcher # NoWatcher
               /\ \/ target = Null
                  \/ state.target = Null
                  \/ target.path # state.target.path
                  \/ target.kind # state.target.kind
            THEN DisposeWatcher(rt)
            ELSE rt
        retargeted == [disposed EXCEPT !.state.target = target]
    IN IF target = Null \/ retargeted.state.watcher # NoWatcher
       THEN retargeted
       ELSE IF watchOk
            THEN LET id == Fresh({ w.id : w \in retargeted.watchers })
                 IN [retargeted EXCEPT
                        !.state.watcher = id,
                        !.watchers = @ \cup { [id |-> id, target |-> target] }]
            ELSE retargeted

ScheduleReload(rt) ==
    LET cleared == IF rt.state.timer # NoTimer
                   THEN [rt EXCEPT !.timers = @ \ { rt.state.timer }]
                   ELSE rt
        id == Fresh(cleared.timers)
    IN [cleared EXCEPT !.timers = @ \cup { id }, !.state.timer = id]

\* ---------------------------------------------------------------- documents
\* A document text is modelled by what parseTree makes of it: whether it
\* yields a tree, and the tree's object nodes in visit (pre-) order, each with
\* the structural path getLocation reports at its offset and its properties
\* (key, type of the value node or "missing", value).
Prop(key, vtype, value) == [key |-> key, vtype |-> vtype, value |-> value]
Obj(path, props) == [path |-> path, props |-> props]

Closed == [parses |-> FALSE, objects |-> << >>, closed |-> TRUE]
Text(parses, objects) == [parses |-> parses, objects |-> objects, closed |-> FALSE]

\* {"abilities": {"a1": {"type": "a:x", "power": 1, "bogus": 2}}}
TextKnownField ==
    Text(TRUE,
         << Obj(<< >>, << Prop("abilities", "object", "") >>),
            Obj(<<"abilities">>, << Prop("a1", "object", "") >>),
            Obj(<<"abilities", "a1">>,
                << Prop("type", "string", "a:x"), Prop("power", "number", "1"),
                   Prop("bogus", "number", "2") >>) >>)

\* {"abilities": {"a1": {"type": "palladium:dummy", "extra": 1,
\*                       "conditions": {"enabling": [], "bogus": 1}}}}
TextDummy ==
    Text(TRUE,
         << Obj(<< >>, << Prop("abilities", "object", "") >>),
            Obj(<<"abilities">>, << Prop("a1", "object", "") >>),
            Obj(<<"abilities", "a1">>,
                << Prop("type", "string", "palladium:dummy"), Prop("extra", "number", "1"),
                   Prop("conditions", "object", "") >>),
            Obj(<<"abilities", "a1", "conditions">>,
                << Prop("enabling", "array", ""), Prop("bogus", "number", "1") >>) >>)

\* the empty text: parseTree returns no tree
TextUnparsed == Text(FALSE, << >>)

DocTexts == { TextKnownField, TextDummy, TextUnparsed }

Uris == { "file:///pack/one.json" }

ALWAYS_ALLOWED_ABILITY_FIELDS == { "type", "conditions" }

IsConditionPath(path) == \E n \in DOMAIN path : path[n] = "conditions"
IsAbilityPath(path) == \E n \in DOMAIN path : path[n] = "abilities"

DocKindFromPath(path) ==
    IF IsConditionPath(path) THEN "condition"
    ELSE IF IsAbilityPath(path) THEN "ability"
    ELSE "undefined"

\* index of the first property named propertyName that has a value node, or 0
FindPropertyValueNode(props, propertyName) ==
    LET hits == { n \in DOMAIN props :
                    props[n].key = propertyName /\ props[n].vtype # "missing" }
    IN IF hits = {} THEN 0 ELSE CHOOSE n \in hits : \A m \in hits : n <= m

\* A diagnostic is identified by its message kind and the node its range
\* spans: the value node ("value") or key node ("key") of property prop of
\* object obj.
Diagnostic(code, obj, prop, part, arg) ==
    [code |-> code, obj |-> obj, prop |-> prop, part |-> part, arg |-> arg]

RECURSIVE FieldDiagnostics(_, _, _, _)
FieldDiagnostics(props, obj, fields, n) ==
    IF n > Len(props) THEN << >>
    ELSE LET fieldName == props[n].key
             rest == FieldDiagnostics(props, obj, fields, n + 1)
         IN IF fieldName \in ALWAYS_ALLOWED_ABILITY_FIELDS \/ fieldName \in fields
            THEN rest
            ELSE << Diagnostic("undefined_field", obj, n, "key", fieldName) >> \o rest

\* a faulty validateAbilityObject: a record without fields allows no field
ValidateAbilityObjectStrict(object, obj, map) ==
    LET t == FindPropertyValueNode(object.props, "type")
    IN IF t = 0 THEN << >>
       ELSE IF object.props[t].vtype # "string" THEN << >>
       ELSE LET typeId == object.props[t].value
            IN IF typeId \notin DOMAIN map
               THEN << Diagnostic("unknown_type", obj, t, "value", typeId) >>
               ELSE FieldDiagnostics(object.props, obj, map[typeId].fields, 1)

ValidateAbilityObject(object, obj, map) ==
    LET t == FindPropertyValueNode(object.props, "type")
    IN IF t = 0 THEN << >>
       ELSE IF object.props[t].vtype # "string" THEN << >>
       ELSE LET typeId == object.props[t].value
            IN IF typeId \notin DOMAIN map
               THEN << Diagnostic("unknown_type", obj, t, "value", typeId) >>
               ELSE IF map[typeId].fields = {} THEN << >>
               ELSE FieldDiagnostics(object.props, obj, map[typeId].fields, 1)

RECURSIVE VisitNodes(_, _, _)
VisitNodes(objects, map, n) ==
    IF n > Len(objects) THEN << >>
    ELSE (IF DocKindFromPath(objects[n].path) = "ability"
          THEN ValidateAbilityObject(objects[n], n, map)
          ELSE << >>)
         \o VisitNodes(objects, map, n + 1)

\* a faulty validateDocument: a text that gives no tree is reported
ValidateDocumentReportsNoTree(text, map) ==
    IF text.parses THEN VisitNodes(text.objects, map, 1)
    ELSE << Diagnostic("parse_error", 0, 0, "value", "") >>

\* the diagnostics validateDocument sends for a document
ValidateDocument(text, map) ==
    IF text.parses THEN VisitNodes(text.objects, map, 1) ELSE << >>

\* -------------------------------------------------------------------- state
VARIABLES
    volatile,           \* the kind whose schema source changes during the session
    session,            \* "created" | "initializing" | "ready" | "shutdown"
    preferredSources,   \* the InitOptions in force
    abilities, abilityMap,
    conditions, conditionMap,
    energyRenderers, energyRendererMap,
    watchStates,        \* kind -> [watcher, target, timer]
    fsWatchers,         \* kind -> the open fs watchers created for it
    timers,             \* kind -> the armed debounce timeouts
    initialLoads,       \* kinds whose initial reload (onInitialize) is awaiting I/O
    reloading,          \* kind -> debounce-started reloads awaiting I/O
    documents,          \* uri -> text of the open document, or Closed
    diagnostics,        \* uri -> the diagnostics last sent for it
    call                \* the function last applied on its own: [fn, kind, arg, res]

snapshots == << abilities, abilityMap, conditions, conditionMap,
                energyRenderers, energyRendererMap >>
watching == << watchStates, fsWatchers, timers >>
docs == << documents, diagnostics >>
server == << volatile, session, preferredSources, snapshots, watching, initialLoads, reloading, docs >>
vars == << server, call >>

NoCall == [fn |-> "none"]

SnapshotList(kind) ==
    CASE kind = "ability" -> abilities
      [] kind = "condition" -> conditions
      [] kind = "energy_renderer" -> energyRenderers

SnapshotMap(kind) ==
    CASE kind = "ability" -> abilityMap
      [] kind = "condition" -> conditionMap
      [] kind = "energy_renderer" -> energyRendererMap

Runtime(kind) ==
    [state |-> watchStates[kind], watchers |-> fsWatchers[kind], timers |-> timers[kind]]

\* install the runtime of at most one record per kind
SetRuntimes(new) ==
    /\ watchStates' = [k \in Kinds |-> IF k \in DOMAIN new THEN new[k].state ELSE watchStates[k]]
    /\ fsWatchers' = [k \in Kinds |-> IF k \in DOMAIN new THEN new[k].watchers ELSE fsWatchers[k]]
    /\ timers' = [k \in Kinds |-> IF k \in DOMAIN new THEN new[k].timers ELSE timers[k]]

Init ==
    /\ volatile \in Kinds
    /\ session = "created"
    /\ preferredSources = [docsRoot |-> Undefined, abilitiesFile |-> Undefined,
                           conditionsFile |-> Undefined, energyRendersFile |-> Undefined]
    /\ abilities = CreateFallbackAbilities
    /\ abilityMap = BuildAbilityMap(abilities)
    /\ conditions = << >>
    /\ conditionMap = BuildAbilityMap(conditions)
    /\ energyRenderers = CreateFallbackEnergyRenderers
    /\ energyRendererMap = BuildAbilityMap(energyRenderers)
    /\ watchStates = [k \in Kinds |-> [watcher |-> NoWatcher, target |-> Null, timer |-> NoTimer]]
    /\ fsWatchers = [k \in Kinds |-> {}]
    /\ timers = [k \in Kinds |-> {}]
    /\ initialLoads = {}
    /\ reloading = [k \in Kinds |-> 0]
    /\ documents = [u \in Uris |-> Closed]
    /\ diagnostics = [u \in Uris |-> << >>]
    /\ call = NoCall

\* ------------------------------------------------------------------ session
\* connection.onInitialize up to its await: the three initial reloads start
OnInitialize(options) ==
    /\ session = "created"
    /\ session' = "initializing"
    /\ preferredSources' = options
    /\ initialLoads' = Kinds
    /\ UNCHANGED << call, volatile, snapshots, watching, reloading, docs >>

\* a faulty connection.onInitialize: the capabilities are returned without
\* awaiting the initial reloads
InitializeReturnsEarly ==
    /\ session = "initializing"
    /\ session' = "ready"
    /\ UNCHANGED << call, volatile, preferredSources, snapshots, watching, initialLoads, reloading, docs >>

\* connection.onInitialize after Promise.all: the capabilities are returned
InitializeReturn ==
    /\ session = "initializing"
    /\ initialLoads = {}
    /\ session' = "ready"
    /\ UNCHANGED << call, volatile, preferredSources, snapshots, watching, initialLoads, reloading, docs >>

OnShutdown ==
    /\ session = "ready"
    /\ session' = "shutdown"
    /\ SetRuntimes([k \in Kinds |-> DisposeWatcher(Runtime(k))])
    /\ UNCHANGED << call, volatile, preferredSources, snapshots, initialLoads, reloading, docs >>

\* --------------------------------------------------------- reload scheduling
DetectDocKindsForPath(fsPath) ==
    { k \in Kinds :
        CASE k = "ability" ->
                \/ MatchesTarget(fsPath, watchStates["ability"].target)
                \/ MatchesExpectedPath(fsPath, GetAbilityFilePath(preferredSources))
          [] k = "condition" ->
                \/ MatchesTarget(fsPath, watchStates["condition"].target)
                \/ MatchesExpectedPath(fsPath, GetConditionFilePath(preferredSources))
          [] k = "energy_renderer" ->
                \/ MatchesTarget(fsPath, watchStates["energy_renderer"].target)
                \/ /\ preferredSources.docsRoot # Undefined
                   /\ \/ MatchesExpectedPath(fsPath,
                            Join(preferredSources.docsRoot, "energy_render_beams.html"))
                      \/ MatchesExpectedPath(fsPath,
                            Join(preferredSources.docsRoot, "energy_beam_renderers.html"))
                \/ MatchesExpectedPath(fsPath, preferredSources.energyRendersFile) }

\* connection.onDidChangeWatchedFiles
OnDidChangeWatchedFiles(changes) ==
    /\ session = "ready"
    /\ LET pending == UNION { DetectDocKindsForPath(c) : c \in changes }
       IN SetRuntimes([k \in pending |-> ScheduleReload(Runtime(k))])
    /\ UNCHANGED << call, volatile, session, preferredSources, snapshots, initialLoads, reloading, docs >>

\* the callback configureWatcher gives fs.watch, run for watcher w of kind
\* with a file name that does or does not end in .html
FsWatchCallback(kind, w, html) ==
    /\ w \in fsWatchers[kind]
    /\ IF w.target.kind = "folder" /\ ~html
       THEN UNCHANGED watching
       ELSE SetRuntimes([k \in {kind} |-> ScheduleReload(Runtime(kind))])
    /\ UNCHANGED << call, volatile, session, preferredSources, snapshots, initialLoads, reloading, docs >>

RECURSIVE Sum(_, _)
Sum(f, S) == IF S = {} THEN 0 ELSE LET x == CHOOSE y \in S : TRUE IN f[x] + Sum(f, S \ {x})

\* debounce-started reloads awaiting their I/O
Awaiting == Sum(reloading, Kinds)

\* the setTimeout callback of scheduleReload: the reload function is called
\* and runs up to its first await
TimerFires(kind, t) ==
    /\ t \in timers[kind]
    /\ Awaiting < MaxInflight
    /\ timers' = [timers EXCEPT ![kind] = @ \ { t }]
    /\ reloading' = [reloading EXCEPT ![kind] = @ + 1]
    /\ UNCHANGED << call, volatile, session, preferredSources, snapshots, watchStates, fsWatchers,
                    initialLoads, docs >>

\* ------------------------------------------------------------------- reloads
GetDocsFolderWatchTarget(config) == FolderTarget(config)

\* What a reload publishes, given what its I/O returned: the entry list and
\* the target handed to configureWatcher (try branch, or catch branch when
\* resolution throws).
\* a faulty reloadAbilities: an empty load is published as it is
ReloadAbilitiesResultNoFallback(config, io) ==
    IF io.throws
    THEN [list |-> CreateFallbackAbilities, target |-> GetDocsFolderWatchTarget(config)]
    ELSE LET res == ResolveAbilities(config, io)
         IN [list |-> res.entries, target |-> res.watchTarget]

ReloadAbilitiesResult(config, io) ==
    IF io.throws
    THEN [list |-> CreateFallbackAbilities, target |-> GetDocsFolderWatchTarget(config)]
    ELSE LET res == ResolveAbilities(config, io)
         IN [list |-> IF Len(res.entries) > 0 THEN res.entries ELSE CreateFallbackAbilities,
             target |-> res.watchTarget]

ReloadConditionsResult(config, io) ==
    IF io.throws
    THEN [list |-> << >>, target |-> GetDocsFolderWatchTarget(config)]
    ELSE LET res == ResolveConditions(config, io)
         IN [list |-> res.entries, target |-> res.watchTarget]

\* a faulty reloadEnergyRenderers: an empty load is published as it is
ReloadEnergyRenderersResultNoFallback(config, io) ==
    IF io.throws
    THEN [list |-> CreateFallbackEnergyRenderers, target |-> GetDocsFolderWatchTarget(config)]
    ELSE LET res == ResolveEnergyRenderers(config, io)
         IN [list |-> res.entries, target |-> res.watchTarget]

ReloadEnergyRenderersResult(config, io) ==
    IF io.throws
    THEN [list |-> CreateFallbackEnergyRenderers, target |-> GetDocsFolderWatchTarget(config)]
    ELSE LET res == ResolveEnergyRenderers(config, io)
         IN [list |-> IF Len(res.entries) > 0 THEN res.entries
                      ELSE CreateFallbackEnergyRenderers,
             target |-> res.watchTarget]

\* a faulty reload: the list is replaced and the map left as it was
PublishedMapStale(list, oldMap) == oldMap

\* the map a reload publishes with its list
PublishedMap(list, oldMap) == BuildAbilityMap(list)

\* a faulty validateAllDocuments: nothing is validated again
ValidateAllDocumentsSkipped(map) == diagnostics

\* validateAllDocuments against the ability map map
ValidateAllDocuments(map) ==
    [u \in Uris |-> IF documents[u] # Closed
                    THEN ValidateDocument(documents[u], map)
                    ELSE diagnostics[u]]

\* what the I/O of a reload of kind may return, and whether fs.watch may fail
EnvOutcomes(kind) ==
    IF kind = volatile THEN IoOutcomes(kind, preferredSources)
    ELSE { StableOutcome(kind, preferredSources) }

EnvWatchOk(kind) == IF kind = volatile THEN BOOLEAN ELSE { TRUE }

\* one of the awaiting reloads of kind finishes: the initial one or a
\* debounce-started one
Finishes(kind, initial) ==
    IF initial
    THEN /\ kind \in initialLoads
         /\ initialLoads' = initialLoads \ { kind }
         /\ UNCHANGED reloading
    ELSE /\ reloading[kind] > 0
         /\ reloading' = [reloading EXCEPT ![kind] = @ - 1]
         /\ UNCHANGED initialLoads

\* reloadAbilities from the return of its await to its end
ReloadAbilities(initial, io, watchOk) ==
    /\ Finishes("ability", initial)
    /\ LET result == ReloadAbilitiesResult(preferredSources, io)
       IN /\ abilities' = result.list
          /\ abilityMap' = PublishedMap(result.list, abilityMap)
          /\ SetRuntimes([k \in {"ability"} |->
                            ConfigureWatcher(Runtime("ability"), result.target, watchOk)])
    /\ diagnostics' = ValidateAllDocuments(abilityMap')
    /\ UNCHANGED << call, volatile, session, preferredSources, conditions, conditionMap,
                    energyRenderers, energyRendererMap, documents >>

\* a faulty reloadConditions: the watcher is configured for the ability kind
ReloadConditionsWatchesAbility(initial, io, watchOk) ==
    /\ Finishes("condition", initial)
    /\ LET result == ReloadConditionsResult(preferredSources, io)
       IN /\ conditions' = result.list
          /\ conditionMap' = PublishedMap(result.list, conditionMap)
          /\ SetRuntimes([k \in {"ability"} |->
                            ConfigureWatcher(Runtime("ability"), result.target, watchOk)])
    /\ diagnostics' = ValidateAllDocuments(abilityMap)
    /\ UNCHANGED << call, volatile, session, preferredSources, abilities, abilityMap,
                    energyRenderers, energyRendererMap, documents >>

\* reloadConditions from the return of its await to its end
ReloadConditions(initial, io, watchOk) ==
    /\ Finishes("condition", initial)
    /\ LET result == ReloadConditionsResult(preferredSources, io)
       IN /\ conditions' = result.list
          /\ conditionMap' = PublishedMap(result.list, conditionMap)
          /\ SetRuntimes([k \in {"condition"} |->
                            ConfigureWatcher(Runtime("condition"), result.target, watchOk)])
    /\ diagnostics' = ValidateAllDocuments(abilityMap)
    /\ UNCHANGED << call, volatile, session, preferredSources, abilities, abilityMap,
                    energyRenderers, energyRendererMap, documents >>

\* reloadEnergyRenderers from the return of its await to its end
ReloadEnergyRenderers(initial, io, watchOk) ==
    /\ Finishes("energy_renderer", initial)
    /\ LET result == ReloadEnergyRenderersResult(preferredSources, io)
       IN /\ energyRenderers' = result.list
          /\ energyRendererMap' = PublishedMap(result.list, energyRendererMap)
          /\ SetRuntimes([k \in {"energy_renderer"} |->
                            ConfigureWatcher(Runtime("energy_renderer"), result.target, watchOk)])
    /\ diagnostics' = ValidateAllDocuments(abilityMap)
    /\ UNCHANGED << call, volatile, session, preferredSources, abilities, abilityMap,
                    conditions, conditionMap, documents >>

\* ----------------------------------------------------------- document events
\* a faulty documents.onDidOpen: opening a document also requests a reload of
\* the abilities
OnDidOpenSchedulesReload(uri, text) ==
    /\ session = "ready"
    /\ documents[uri] = Closed
    /\ documents' = [documents EXCEPT ![uri] = text]
    /\ diagnostics' = [diagnostics EXCEPT ![uri] = ValidateDocument(text, abilityMap)]
    /\ SetRuntimes([k \in {"ability"} |-> ScheduleReload(Runtime("ability"))])
    /\ UNCHANGED << call, volatile, session, preferredSources, snapshots, initialLoads, reloading >>

\* documents.onDidOpen (the document manager then also fires the content
\* change handler, which validates the same text again)
OnDidOpen(uri, text) ==
    /\ session = "ready"
    /\ documents[uri] = Closed
    /\ documents' = [documents EXCEPT ![uri] = text]
    /\ diagnostics' = [diagnostics EXCEPT ![uri] = ValidateDocument(text, abilityMap)]
    /\ UNCHANGED << call, volatile, session, preferredSources, snapshots, watching, initialLoads, reloading >>

\* documents.onDidChangeContent
OnDidChangeContent(uri, text) ==
    /\ session = "ready"
    /\ documents[uri] # Closed
    /\ documents' = [documents EXCEPT ![uri] = text]
    /\ diagnostics' = [diagnostics EXCEPT ![uri] = ValidateDocument(text, abilityMap)]
    /\ UNCHANGED << call, volatile, session, preferredSources, snapshots, watching, initialLoads, reloading >>

\* a faulty documents.onDidClose: nothing is published for the closed document
OnDidCloseKeepsDiagnostics(uri) ==
    /\ session = "ready"
    /\ documents[uri] # Closed
    /\ documents' = [documents EXCEPT ![uri] = Closed]
    /\ UNCHANGED << call, volatile, session, preferredSources, snapshots, watching, initialLoads,
                    reloading, diagnostics >>

\* documents.onDidClose
OnDidClose(uri) ==
    /\ session = "ready"
    /\ documents[uri] # Closed
    /\ documents' = [documents EXCEPT ![uri] = Closed]
    /\ diagnostics' = [diagnostics EXCEPT ![uri] = << >>]
    /\ UNCHANGED << call, volatile, session, preferredSources, snapshots, watching, initialLoads, reloading >>

\* connection.onCompletion and connection.onHover read the snapshots and the
\* document and assign nothing
OnCompletion(uri) ==
    /\ session = "ready"
    /\ UNCHANGED vars

OnHover(uri) ==
    /\ session = "ready"
    /\ UNCHANGED vars

\* ------------------------------------------------------------- specification
ChangeSets == { c \in SUBSET ChangedPaths : Cardinality(c) <= MaxChanges }

Next ==
    \/ \E options \in InitOptionsSet : OnInitialize(options)
    \/ InitializeReturn
    \/ OnShutdown
    \/ \E changes \in ChangeSets : OnDidChangeWatchedFiles(changes)
    \/ \E kind \in Kinds : \E w \in fsWatchers[kind] : \E html \in BOOLEAN :
          FsWatchCallback(kind, w, html)
    \/ \E kind \in Kinds : \E t \in timers[kind] : TimerFires(kind, t)
    \/ \E initial \in BOOLEAN : \E watchOk \in EnvWatchOk("ability") :
          \E io \in EnvOutcomes("ability") :
             ReloadAbilities(initial, io, watchOk)
    \/ \E initial \in BOOLEAN : \E watchOk \in EnvWatchOk("condition") :
          \E io \in EnvOutcomes("condition") :
             ReloadConditions(initial, io, watchOk)
    \/ \E initial \in BOOLEAN : \E watchOk \in EnvWatchOk("energy_renderer") :
          \E io \in EnvOutcomes("energy_renderer") :
             ReloadEnergyRenderers(initial, io, watchOk)
    \/ \E uri \in Uris : \E text \in DocTexts : OnDidOpen(uri, text)
    \/ \E uri \in Uris : \E text \in DocTexts : OnDidChangeContent(uri, text)
    \/ \E uri \in Uris : OnDidClose(uri)
    \/ \E uri \in Uris : OnCompletion(uri)
    \/ \E uri \in Uris : OnHover(uri)

Spec == Init /\ [][Next]_vars

\* ------------------------------------------------------------------- claims
\* reloads of kind that have started and not yet published
InProgress(kind) == reloading[kind] + (IF kind \in initialLoads THEN 1 ELSE 0)

\* the step is the completion of a reload of kind
Completes(kind) ==
    \/ reloading'[kind] = reloading[kind] - 1
    \/ kind \in initialLoads /\ kind \notin initialLoads'

\* C1: a burst of file-change events for a kind triggers exactly one reload,
\* started after the last event: never two timers of a kind are armed, and,
\* while the session runs, an armed timer goes away only by being replaced by
\* the timer of a newer event or by firing, which starts one reload.
C1_BurstTriggersExactlyOneReload ==
    [][\A k \in Kinds :
          /\ Cardinality(timers'[k]) <= 1
          /\ (timers[k] # {} /\ session' # "shutdown")
                => \/ timers'[k] # {}
                   \/ timers'[k] = {} /\ reloading'[k] = reloading[k] + 1]_vars

\* C2: a reload request made while an earlier reload of the kind is in
\* progress is never lost: the completion of the earlier reload, whatever
\* watch target it resolves, leaves the pending debounce timer armed.
C2_RequestDuringReloadNeverLost ==
    [][\A k \in Kinds : Completes(k) => timers[k] \subseteq timers'[k]]_vars

\* C3: reloads are serialized per kind: never two reloads of one kind are in
\* progress at once.
C3_ReloadsSerializedPerKind ==
    \A k \in Kinds : InProgress(k) <= 1

Fallback(kind) ==
    CASE kind = "ability" -> CreateFallbackAbilities
      [] kind = "condition" -> << >>
      [] kind = "energy_renderer" -> CreateFallbackEnergyRenderers

\* the step is the completion of a reload of kind whose I/O returned io
ReloadOf(kind, initial, io, watchOk) ==
    CASE kind = "ability" -> ReloadAbilities(initial, io, watchOk)
      [] kind = "condition" -> ReloadConditions(initial, io, watchOk)
      [] kind = "energy_renderer" -> ReloadEnergyRenderers(initial, io, watchOk)

\* one of the kind's source files exists
SourceFound(kind, io) == io.files \cap CandidateFiles(kind, preferredSources) # {}

\* the source file was found, read and parsed
Loaded(kind, io) == ~io.throws /\ SourceFound(kind, io) /\ io.readable

\* the load fails: source file missing, unreadable, or yielding no entries
LoadFails(kind, io) == ~Loaded(kind, io) \/ io.raw = << >>

SnapshotConsistent(list, map) ==
    /\ \A m, n \in DOMAIN list : list[m].id = list[n].id => m = n
    /\ DOMAIN map = Ids(list)
    /\ \A n \in DOMAIN list : map[list[n].id] = list[n]

\* C4: for each kind the id map is the dedupe-by-id of the entry list (no id
\* twice in the list, the map's keys are the list's ids, each id maps to its
\* record in the list), and a load that holds several blocks of one id
\* publishes the record of the last of them.
C4_MapIsDedupeOfList ==
    /\ [](\A k \in Kinds : SnapshotConsistent(SnapshotList(k), SnapshotMap(k)))
    /\ [][\A k \in Kinds : Completes(k) =>
             \A io \in EnvOutcomes(k) : Loaded(k, io) =>
                \A initial \in BOOLEAN : \A watchOk \in EnvWatchOk(k) :
                   ReloadOf(k, initial, io, watchOk)
                      => \A id \in Ids(io.raw) :
                            SnapshotMap(k)'[id] = io.raw[LastIndexOf(io.raw, id)]]_vars

\* the abilities were loaded from their file and published with their map, and
\* requests are served
C4_Witness ==
    /\ session = "ready"
    /\ abilities = << Rec("a:x", {"power"}) >>
    /\ abilityMap = [id \in {"a:x"} |-> Rec("a:x", {"power"})]
    /\ watchStates["ability"].target.kind = "file"

C6_FailedLoadKeepsOrFallsBack ==
    [][\A k \in Kinds : Completes(k) =>
          \A io \in EnvOutcomes(k) : LoadFails(k, io) =>
             \A initial \in BOOLEAN : \A watchOk \in EnvWatchOk(k) :
                ReloadOf(k, initial, io, watchOk)
                   => SnapshotList(k)' \in { SnapshotList(k), Fallback(k) }]_vars

\* C6 amended: a reload whose load fails completes with the kind's previous
\* snapshot, with its hardcoded fallback or, for abilities whose source file
\* is missing, with the non-empty entries of the bundled examples file.
C6_FailedLoadFallsBackOrBundled ==
    [][\A k \in Kinds : Completes(k) =>
          \A io \in EnvOutcomes(k) : LoadFails(k, io) =>
             \A initial \in BOOLEAN : \A watchOk \in EnvWatchOk(k) :
                ReloadOf(k, initial, io, watchOk)
                   => \/ SnapshotList(k)' \in { SnapshotList(k), Fallback(k) }
                      \/ /\ k = "ability"
                         /\ ~io.throws /\ ~SourceFound(k, io) /\ io.readable
                         /\ io.raw # << >>
                         /\ SnapshotList(k)' = ParseAbilityHtml(io.raw)]_vars

\* the ability source is missing and the bundled examples were published
C6_Witness ==
    /\ watchStates["ability"].target.kind = "folder"
    /\ abilities = << Rec("a:x", {"power"}) >>

\* C7: every kind's snapshot is always defined and is the kind's built-in
\* fallback or a non-empty list of loaded entries; the ability and the energy
\* renderer snapshots are never empty.
C7_SnapshotNeverMissing ==
    \A k \in Kinds :
        /\ \/ SnapshotList(k) = Fallback(k)
           \/ /\ Len(SnapshotList(k)) > 0
              /\ \A n \in DOMAIN SnapshotList(k) : SnapshotList(k)[n] \in Blocks(k)
        /\ DOMAIN SnapshotMap(k) = Ids(SnapshotList(k))
        /\ k # "condition" => Len(SnapshotList(k)) > 0

\* a load of the existing ability file yielded nothing while another reload
\* is already awaiting its I/O
C7_Witness ==
    /\ abilities = CreateFallbackAbilities
    /\ watchStates["ability"].target.kind = "file"
    /\ reloading["ability"] > 0

\* everything the program holds for kind is as it was before the step
KindUntouched(kind) ==
    /\ SnapshotList(kind)' = SnapshotList(kind)
    /\ SnapshotMap(kind)' = SnapshotMap(kind)
    /\ watchStates'[kind] = watchStates[kind]
    /\ fsWatchers'[kind] = fsWatchers[kind]
    /\ timers'[kind] = timers[kind]

\* C8: the completion of a reload of one kind, and the scheduling of a reload
\* of one kind by the fs watcher callback or by a watched-files notification,
\* leave the snapshot, watch target, watcher and timer of every other kind
\* unchanged: a step that changes any of them for kind j is not the completion
\* of a reload of another kind, not the watcher callback of another kind, and
\* is a watched-files notification only when j is among the kinds it detects.
C8_ReloadOfOneKindLeavesOthers ==
    [][\A j \in Kinds :
          \/ KindUntouched(j)
          \/ /\ \A k \in Kinds \ { j } : ~Completes(k)
             /\ \A k \in Kinds \ { j } : \A w \in fsWatchers[k] : \A html \in BOOLEAN :
                   ~FsWatchCallback(k, w, html)
             /\ \A changes \in ChangeSets :
                   OnDidChangeWatchedFiles(changes)
                      => j \in UNION { DetectDocKindsForPath(c) : c \in changes }]_vars

\* a reload of the abilities failed while the conditions have a loaded
\* snapshot and an armed timer, and the energy renderers a live watcher
C8_Witness ==
    /\ abilities = CreateFallbackAbilities
    /\ watchStates["ability"].target.kind = "file"
    /\ conditions # << >>
    /\ timers["condition"] # {}
    /\ fsWatchers["energy_renderer"] # {}

\* C9: between handlers, the diagnostics published for every open document
\* are the validation of its current text against the current ability
\* snapshot.
C9_DiagnosticsNeverStale ==
    \A u \in Uris :
        documents[u] # Closed => diagnostics[u] = ValidateDocument(documents[u], abilityMap)

\* an open document carries a diagnostic that depends on the loaded abilities
C9_Witness ==
    /\ abilities = << Rec("a:x", {"power"}) >>
    /\ \E u \in Uris :
          /\ documents[u] = TextKnownField
          /\ diagnostics[u] # << >>
          /\ diagnostics[u] # ValidateDocument(TextKnownField,
                                               BuildAbilityMap(CreateFallbackAbilities))

\* at most one open watcher per kind, the one the watch state holds, watching
\* the recorded target
WatcherMatchesState(kind) ==
    /\ Cardinality(fsWatchers[kind]) <= 1
    /\ \A w \in fsWatchers[kind] :
          w.id = watchStates[kind].watcher /\ w.target = watchStates[kind].target
    /\ watchStates[kind].watcher # NoWatcher => fsWatchers[kind] # {}

\* C10 as claimed: at most one live watcher per kind, watching the recorded
\* target, and whenever a reload resolves a target that differs from the
\* current one the previous watcher is closed and the pending timer cancelled.
C10_TargetChangeClosesAndCancels ==
    /\ [](\A k \in Kinds : WatcherMatchesState(k))
    /\ [][\A k \in Kinds :
             (Completes(k) /\ watchStates'[k].target # watchStates[k].target)
                => /\ \A w \in fsWatchers[k] : w \notin fsWatchers'[k]
                   /\ timers'[k] = {}]_vars

\* C10 amended: at most one live watcher per kind, watching the recorded
\* target, and whenever a reload resolves a target that differs from the
\* current one while a watcher is live, that watcher is closed and the
\* pending timer cancelled; with no live watcher the pending timer stays.
C10_TargetChangeWithLiveWatcher ==
    /\ [](\A k \in Kinds : WatcherMatchesState(k))
    /\ [][\A k \in Kinds :
             (Completes(k) /\ watchStates'[k].target # watchStates[k].target)
                => IF watchStates[k].watcher # NoWatcher
                   THEN /\ \A w \in fsWatchers[k] : w \notin fsWatchers'[k]
                        /\ timers'[k] = {}
                        /\ watchStates'[k].timer = NoTimer
                   ELSE timers'[k] = timers[k]]_vars

\* a reload replaced a live watcher after a timer of the kind had fired: the
\* timer handle is cleared, a new watcher is open, another reload is awaiting
C10_Witness ==
    \E k \in Kinds :
        /\ session = "ready"
        /\ reloading[k] > 0
        /\ watchStates[k].timer = NoTimer
        /\ watchStates[k].watcher # NoWatcher
        /\ watchStates[k].target.kind = "file"

\* ------------------------------------------------------------- JSON values
\* A JSON value as JSON.parse gives it. An object is the sequence of its
\* entries in property order (no key of the model is integer-like, so the
\* order is the insertion order).
Str(s) == [t |-> "string", v |-> s]
Num(n) == [t |-> "number", v |-> n]
Bool(b) == [t |-> "boolean", v |-> b]
NullValue == [t |-> "null", v |-> << >>]
Arr(items) == [t |-> "array", v |-> items]
ObjectValue(entries) == [t |-> "object", v |-> entries]
Entry(key, value) == [key |-> key, value |-> value]

IsPlainObject(value) == value.t = "object"
IsArray(value) == value.t = "array"

Keys(object) == { object.v[n].key : n \in DOMAIN object.v }
IndexOfKey(object, key) == CHOOSE n \in DOMAIN object.v : object.v[n].key = key
GetKey(object, key) == object.v[IndexOfKey(object, key)].value

\* object[key] = value: an own key keeps its place, a new key goes last
SetKey(object, key, value) ==
    IF key \in Keys(object)
    THEN [object EXCEPT !.v[IndexOfKey(object, key)].value = value]
    ELSE [object EXCEPT !.v = Append(@, Entry(key, value))]

CreateEmptyConditionsBlock ==
    ObjectValue(<< Entry("enabling", Arr(<< >>)), Entry("unlocking", Arr(<< >>)) >>)

\* the array key of a conditions block is present and is an array
HasArray(object, key) == key \in Keys(object) /\ IsArray(GetKey(object, key))

\* a faulty ensureAbilityConditions: an incomplete block is replaced whole
EnsureAbilityConditionsReplaces(root) ==
    IF ~IsPlainObject(root) THEN root
    ELSE IF /\ "conditions" \in Keys(root)
            /\ IsPlainObject(GetKey(root, "conditions"))
            /\ HasArray(GetKey(root, "conditions"), "enabling")
            /\ HasArray(GetKey(root, "conditions"), "unlocking")
         THEN root
         ELSE SetKey(root, "conditions", CreateEmptyConditionsBlock)

EnsureAbilityConditions(root) ==
    IF ~IsPlainObject(root) THEN root
    ELSE IF "conditions" \notin Keys(root) \/ ~IsPlainObject(GetKey(root, "conditions"))
         THEN SetKey(root, "conditions", CreateEmptyConditionsBlock)
         ELSE LET existing == GetKey(root, "conditions")
                  enabled == IF HasArray(existing, "enabling") THEN existing
                             ELSE SetKey(existing, "enabling", Arr(<< >>))
                  unlocked == IF HasArray(enabled, "unlocking") THEN enabled
                              ELSE SetKey(enabled, "unlocking", Arr(<< >>))
              IN SetKey(root, "conditions", unlocked)

\* the text head, character by character
HeadText == << "h", "e", "a", "d" >>

RECURSIVE Reordered(_, _, _)
\* the loop of assignBodyPart over entries[n..], inserted telling whether
\* body_part went in already
Reordered(entries, n, inserted) ==
    IF n > Len(entries)
    THEN IF inserted THEN << >> ELSE << Entry("body_part", Str(HeadText)) >>
    ELSE IF ~inserted /\ entries[n].key = "type"
         THEN << entries[n], Entry("body_part", Str(HeadText)) >>
                 \o Reordered(entries, n + 1, TRUE)
         ELSE << entries[n] >> \o Reordered(entries, n + 1, inserted)

\* a faulty assignBodyPart: body_part is always appended last
AssignBodyPartLast(target) ==
    IF "body_part" \in Keys(target) THEN target
    ELSE ObjectValue(Append(target.v, Entry("body_part", Str(HeadText))))

AssignBodyPart(target) ==
    IF "body_part" \in Keys(target) THEN target
    ELSE ObjectValue(Reordered(target.v, 1, FALSE))

EnsureEnergyRendererBodyPart(root) ==
    IF IsArray(root)
    THEN Arr([n \in DOMAIN root.v |->
                IF IsPlainObject(root.v[n]) THEN AssignBodyPart(root.v[n]) ELSE root.v[n]])
    ELSE IF IsPlainObject(root) THEN AssignBodyPart(root) ELSE root

\* ----------------------------------------------------------------- snippets
\* A text is the sequence of its characters.
Backslash == "\\"
Quote == "\""

RECURSIVE ReplaceAll(_, _, _)
\* text.replace(/c/g, rep)
ReplaceAll(text, c, rep) ==
    IF text = << >> THEN << >>
    ELSE (IF Head(text) = c THEN rep ELSE << Head(text) >>) \o ReplaceAll(Tail(text), c, rep)

EscapeSnippet(value) ==
    ReplaceAll(ReplaceAll(ReplaceAll(ReplaceAll(value,
        Backslash, << Backslash, Backslash >>),
        "{", << Backslash, "{" >>),
        "}", << Backslash, "}" >>),
        "$", << Backslash, "$" >>)

RECURSIVE Digits(_)
\* String(n) of a natural number
Digits(n) ==
    LET d == << "0", "1", "2", "3", "4", "5", "6", "7", "8", "9" >>
    IN IF n < 10 THEN << d[n + 1] >> ELSE Digits(n \div 10) \o << d[(n % 10) + 1] >>

\* String(value) of a primitive
StringOf(value) ==
    CASE value.t = "string" -> value.v
      [] value.t = "number" -> Digits(value.v)
      [] value.t = "boolean" -> IF value.v THEN << "t", "r", "u", "e" >>
                                ELSE << "f", "a", "l", "s", "e" >>
      [] value.t = "null" -> << "n", "u", "l", "l" >>

TextNode(text) == [t |-> "text", v |-> text]

BuildPrimitiveSnippet(value, tabIndex) ==
    LET defaultText == StringOf(value)
        escaped == EscapeSnippet(defaultText)
        placeholder == << "$", "{" >> \o Digits(tabIndex) \o << ":" >>
                          \o (IF escaped = << >> THEN << "v", "a", "l", "u", "e" >>
                              ELSE escaped)
                          \o << "}" >>
    IN IF value.t = "string" THEN TextNode(<< Quote >> \o placeholder \o << Quote >>)
       ELSE TextNode(placeholder)

RECURSIVE RenderValue(_, _)
RECURSIVE RenderItems(_, _, _)
\* renderValue with the tabIndex it starts from: the rendered node (the text
\* of a leaf; the rendered items or entries of a non-empty array or object,
\* whose brackets, commas and indentation are fixed) and the tabIndex it ends
\* with
RenderValue(value, tabIndex) ==
    IF IsArray(value)
    THEN IF value.v = << >> THEN [node |-> TextNode(<< "[", "]" >>), next |-> tabIndex]
         ELSE LET r == RenderItems(value.v, 1, tabIndex)
              IN [node |-> [t |-> "array", v |-> r.nodes], next |-> r.next]
    ELSE IF IsPlainObject(value)
    THEN IF value.v = << >> THEN [node |-> TextNode(<< "{", "}" >>), next |-> tabIndex]
         ELSE LET r == RenderItems([n \in DOMAIN value.v |-> value.v[n].value], 1, tabIndex)
              IN [node |-> [t |-> "object",
                            v |-> [n \in DOMAIN value.v |->
                                      Entry(value.v[n].key, r.nodes[n])]],
                  next |-> r.next]
    ELSE [node |-> BuildPrimitiveSnippet(value, tabIndex), next |-> tabIndex + 1]

RenderItems(items, n, tabIndex) ==
    IF n > Len(items) THEN [nodes |-> << >>, next |-> tabIndex]
    ELSE LET first == RenderValue(items[n], tabIndex)
             rest == RenderItems(items, n + 1, first.next)
         IN [nodes |-> << first.node >> \o rest.nodes, next |-> rest.next]

\* a text that JSON.parse accepts, with the value it gives, or one it rejects
JsonText(value) == [parses |-> TRUE, value |-> value]
BadText == [parses |-> FALSE, value |-> NullValue]

\* buildSnippetFromExample: the snippet and the pretty-printed example
BuildSnippetFromExample(example, kind) ==
    IF example.parses
    THEN LET parsed == example.value
             snippetRoot == CASE kind = "ability" -> EnsureAbilityConditions(parsed)
                              [] kind = "energy_renderer" -> EnsureEnergyRendererBodyPart(parsed)
                              [] OTHER -> parsed
         IN [snippet |-> RenderValue(snippetRoot, 1).node, pretty |-> JsonText(parsed)]
    ELSE [snippet |-> [t |-> "raw", v |-> example], pretty |-> example]

\* ------------------------------------------------- schema source documents
\* An entity block (div[id]) of a schema source: its id attribute, the field
\* names of its settings table, and the distinct non-empty texts of its pre
\* elements in the order extractExampleSnippet collects them.
HtmlBlock(id, tableFields, pres) == [id |-> id, tableFields |-> tableFields, pres |-> pres]

\* id.includes(":") for the ids of the model
IncludesColon(id) == id \in { "a:x", "a:y" }

\* the first candidate that JSON.parse accepts, as a sequence of at most one
ExtractExampleSnippet(block) ==
    LET jsonLike == SelectSeq(block.pres, LAMBDA text : text.parses)
    IN IF jsonLike = << >> THEN << >> ELSE << jsonLike[1] >>

\* !parsed for a parsed JSON value
Falsy(value) ==
    \/ value.t = "null"
    \/ value.t = "number" /\ value.v = 0
    \/ value.t = "string" /\ value.v = << >>
    \/ value.t = "boolean" /\ ~value.v

\* the names of the fields inferred from the example
InferFieldsFromExample(exampleRaw) ==
    IF ~exampleRaw.parses \/ Falsy(exampleRaw.value) THEN {}
    ELSE LET parsed == exampleRaw.value
             target == IF IsArray(parsed) /\ parsed.v # << >> /\ IsPlainObject(parsed.v[1])
                       THEN parsed.v[1] ELSE parsed
         IN IF IsPlainObject(target) THEN Keys(target) ELSE {}

\* the record parseAbilityHtml pushes for a block with example exampleRaw
BlockRecord(block, exampleRaw, docKind) ==
    LET built == BuildSnippetFromExample(exampleRaw, docKind)
    IN [id |-> block.id,
        snippet |-> built.snippet,
        example |-> built.pretty,
        fields |-> IF block.tableFields # {} THEN block.tableFields
                   ELSE InferFieldsFromExample(exampleRaw)]

\* parseAbilityHtml over the blocks of a source
ParseHtmlBlocks(html, docKind) ==
    LET kept == SelectSeq(html, LAMBDA block :
                    IncludesColon(block.id) /\ ExtractExampleSnippet(block) # << >>)
    IN DedupeAbilities([n \in DOMAIN kept |->
                           BlockRecord(kept[n], ExtractExampleSnippet(kept[n])[1], docKind)])

\* ------------------------------------------------ functions on their own
\* The inputs the functions are applied to.
Chars == { "a", Quote, Backslash, "$", "}" }
Strings == SeqsUpTo(Chars, MaxStrLen)
Primitives == { Str(str) : str \in Strings } \cup { Num(0), Num(12), NullValue, Bool(TRUE) }

\* with(front, key, values): front followed by nothing or by key with a value
WithOptional(front, key, values) ==
    { front } \cup { Append(front, Entry(key, value)) : value \in values }

ConditionsValues ==
    { Arr(<< >>),
      ObjectValue(<< >>),
      ObjectValue(<< Entry("enabling", Arr(<< Num(12) >>)) >>),
      ObjectValue(<< Entry("unlocking", Arr(<< >>)), Entry("note", Str(<< "a" >>)),
                     Entry("enabling", Str(<< "a" >>)) >>),
      ObjectValue(<< Entry("enabling", Arr(<< Num(12) >>)), Entry("unlocking", Arr(<< >>)),
                     Entry("note", Num(0)) >>),
      CreateEmptyConditionsBlock }

\* examples of ability blocks: objects with a type, with or without a title
\* and a conditions value in either order, and a few values that are no object
AbilityExamples ==
    LET typed == << Entry("type", Str(<< "a" >>)) >>
        titled == WithOptional(typed, "title", Primitives)
        titleFirst == UNION { WithOptional(e, "conditions", ConditionsValues) : e \in titled }
        conditioned == WithOptional(typed, "conditions", ConditionsValues)
        titleLast == UNION { WithOptional(e, "title", Primitives) : e \in conditioned }
    IN { ObjectValue(e) : e \in titleFirst \cup titleLast }
          \cup { Arr(<< >>), Arr(<< ObjectValue(typed) >>), Str(<< "a" >>), ObjectValue(<< >>) }

RendererEntry(key) ==
    CASE key = "type" -> Entry(key, Str(<< "a" >>))
      [] key = "size" -> Entry(key, Num(12))
      [] key = "color" -> Entry(key, NullValue)
      [] key = "body_part" -> Entry(key, Str(<< "a" >>))

\* examples of energy renderer blocks: objects with any of four keys in any
\* order, arrays of such objects, and a value that is no object
EnergyRendererExamples ==
    LET keys == { "type", "size", "color", "body_part" }
        orders == { seq \in SeqsUpTo(keys, 4) :
                       \A m, n \in DOMAIN seq : seq[m] = seq[n] => m = n }
        objects == { ObjectValue([n \in DOMAIN seq |-> RendererEntry(seq[n])]) : seq \in orders }
    IN objects
          \cup { Arr(<< o, ObjectValue(<< RendererEntry("size"), RendererEntry("type") >>),
                        Num(12) >>) :
                    o \in { ob \in objects : Len(ob.v) <= 1 } }
          \cup { Num(12) }

Examples(kind) ==
    CASE kind = "ability" -> AbilityExamples
      [] kind = "energy_renderer" -> EnergyRendererExamples
      [] kind = "condition" ->
            { ObjectValue(<< Entry("type", Str(<< "a" >>)), Entry("value", Num(12)) >>) }

\* the texts a pre element of a block may hold
ExampleTexts ==
    { BadText,
      JsonText(Num(0)),
      JsonText(ObjectValue(<< Entry("type", Str(<< "a" >>)) >>)),
      JsonText(ObjectValue(<< Entry("type", Str(<< "a" >>)), Entry("power", Num(12)) >>)) }

HtmlBlocks ==
    { HtmlBlock(id, tableFields, pres) :
        id \in { "a:x", "a:y", "nocolon" },
        tableFields \in { {}, { "power" } },
        pres \in { seq \in SeqsUpTo(ExampleTexts, 2) :
                      \A m, n \in DOMAIN seq : seq[m] = seq[n] => m = n } }

HtmlInputs == SeqsUpTo(HtmlBlocks, MaxHtmlBlocks)

CallParseAbilityHtml(html, docKind) ==
    /\ call' = [fn |-> "parseAbilityHtml", kind |-> docKind, arg |-> html,
                res |-> ParseHtmlBlocks(html, docKind)]
    /\ UNCHANGED server

\* the properties an object of a validated document may have
ValidationProps ==
    { Prop("type", "string", "a:x"), Prop("type", "string", "u:z"),
      Prop("type", "number", "1"), Prop("power", "number", "1"),
      Prop("bogus", "number", "2"), Prop("conditions", "object", "") }

ObjectProps == SeqsUpTo(ValidationProps, MaxProps)

\* {"abilities": {key: {props}}}, every object-valued property of which holds
\* {"bogus": 1}; the objects are listed in the order visitNode reaches them
AbilityDocument(key, props) ==
    LET inner == SelectSeq(props, LAMBDA prop : prop.vtype = "object")
    IN Text(TRUE,
            << Obj(<< >>, << Prop("abilities", "object", "") >>),
               Obj(<< "abilities" >>, << Prop(key, "object", "") >>),
               Obj(<< "abilities", key >>, props) >>
            \o [n \in DOMAIN inner |->
                   Obj(<< "abilities", key, inner[n].key >>, << Prop("bogus", "number", "1") >>)])

ValidatedTexts ==
    { AbilityDocument(key, props) : key \in { "a1", "conditions" }, props \in ObjectProps }

\* the ability maps documents are validated against
ValidationMaps ==
    { BuildAbilityMap(list) :
        list \in { << >>, << Rec("a:x", {}) >>, << Rec("a:x", { "power" }) >>,
                   << Rec("a:x", { "power", "bogus" }) >> } }

CallValidateDocument(text, map) ==
    /\ call' = [fn |-> "validateDocument", kind |-> "ability", arg |-> text, map |-> map,
                res |-> ValidateDocument(text, map)]
    /\ UNCHANGED server

CallValidateAbilityObject(props, map) ==
    /\ call' = [fn |-> "validateAbilityObject", kind |-> "ability",
                arg |-> Obj(<< "abilities", "a1" >>, props), map |-> map,
                res |-> ValidateAbilityObject(Obj(<< "abilities", "a1" >>, props), 1, map)]
    /\ UNCHANGED server

\* ------------------------------------------------------- field completion
\* The cursor of a completion request in an object: between its properties
\* ("object"), in the key of its property prop ("key"), or in the value of
\* its property prop ("value").
Cursor(at, prop) == [at |-> at, prop |-> prop]
Cursors(props) ==
    { Cursor("object", 0) }
       \cup { Cursor(at, n) : at \in { "key", "value" }, n \in DOMAIN props }

\* the values of the abilities property are the ability entries
IsAbilityEntryObject(object) ==
    Len(object.path) >= 2 /\ object.path[Len(object.path) - 1] = "abilities"

\* the string value of the first type property, as a sequence of at most one
FindTypeIdentifier(props) ==
    LET t == FindPropertyValueNode(props, "type")
    IN IF t # 0 /\ props[t].vtype = "string" THEN << props[t].value >> ELSE << >>

\* ignoreProperty: the index of the property left out, or 0
CollectUsedFieldNames(props, ignoreProperty) ==
    { props[n].key : n \in DOMAIN props \ { ignoreProperty } }

NoContext == [found |-> FALSE, fields |-> {}, usedFields |-> {}]

\* resolveAbilityFieldCompletionContext for a cursor in object
ResolveAbilityFieldCompletionContext(object, cursor, map) ==
    LET typeId == FindTypeIdentifier(object.props)
    IN IF ~IsAbilityEntryObject(object) THEN NoContext
       ELSE IF cursor.at = "value" THEN NoContext
       ELSE IF typeId = << >> THEN NoContext
       ELSE IF typeId[1] \notin DOMAIN map THEN NoContext
       ELSE IF map[typeId[1]].fields = {} THEN NoContext
       ELSE [found |-> TRUE,
             fields |-> map[typeId[1]].fields,
             usedFields |-> CollectUsedFieldNames(object.props,
                               IF cursor.at = "object" THEN 0 ELSE cursor.prop)]

\* a faulty buildAbilityFieldCompletions: used fields are offered too
BuildAbilityFieldCompletionsAll(context) == context.fields

\* the labels of the items buildAbilityFieldCompletions returns
BuildAbilityFieldCompletions(context) ==
    { name \in context.fields : name \notin context.usedFields }

\* onCompletion for a document that is no energy beams file, up to the field
\* completions
CallOnCompletion(props, cursor, map) ==
    /\ LET object == Obj(<< "abilities", "a1" >>, props)
           context == ResolveAbilityFieldCompletionContext(object, cursor, map)
       IN call' = [fn |-> "onCompletion", kind |-> "ability", arg |-> object,
                   cursor |-> cursor, map |-> map, found |-> context.found,
                   res |-> IF context.found THEN BuildAbilityFieldCompletions(context)
                           ELSE {}]
    /\ UNCHANGED server

\* ------------------------------------------------------------------ hover
\* A document's file path, as its segments.
BeamsPath == << "pack", "assets", "ns", "palladium", "energy_beams", "b.json" >>
PowerPath == << "pack", "data", "ns", "powers", "one.json" >>
HoverPaths == { BeamsPath, PowerPath }

\* the path matches /assets/<one segment>/palladium/energy_beams
IsEnergyBeamsFilePath(fsPath) ==
    \E n \in DOMAIN fsPath :
        /\ n + 3 <= Len(fsPath)
        /\ fsPath[n] = "assets"
        /\ fsPath[n + 2] = "palladium"
        /\ fsPath[n + 3] = "energy_beams"

DetermineDocKind(fsPath, object) ==
    IF IsEnergyBeamsFilePath(fsPath) THEN "energy_renderer" ELSE DocKindFromPath(object.path)

\* the properties an object under the hover cursor may have
HoverProps == ValidationProps \cup { Prop("type", "string", "") }
HoverObjects == SeqsUpTo(HoverProps, MaxProps)
HoverCursors(props) == { Cursor(at, n) : at \in { "key", "value" }, n \in DOMAIN props }

NoHover == [found |-> FALSE]

\* resolveHoverContext for a cursor in the key or the value of property
\* cursor.prop of object; an empty type string is falsy
ResolveHoverContext(fsPath, object, cursor) ==
    LET prop == object.props[cursor.prop]
        docKind == DetermineDocKind(fsPath, object)
        entryId == FindTypeIdentifier(object.props)
    IN IF prop.vtype = "missing" THEN NoHover
       ELSE IF docKind = "undefined" THEN NoHover
       ELSE IF entryId = << >> \/ entryId = << "" >> THEN NoHover
       ELSE IF prop.key = "type" /\ prop.vtype = "string" /\ cursor.at = "value"
            THEN [found |-> TRUE, kind |-> "ability", docKind |-> docKind,
                  entryId |-> prop.value]
       ELSE IF prop.key # "type"
            THEN [found |-> TRUE, kind |-> "field", docKind |-> docKind,
                  entryId |-> entryId[1], fieldName |-> prop.key]
       ELSE NoHover

\* resolveHoverContext for a cursor in the object stored under key in the
\* abilities map of the document at fsPath
CallResolveHoverContext(fsPath, key, props, cursor) ==
    /\ LET object == Obj(<< "abilities", key >>, props)
       IN call' = [fn |-> "resolveHoverContext", kind |-> "ability", arg |-> object,
                   cursor |-> cursor, fsPath |-> fsPath,
                   res |-> ResolveHoverContext(fsPath, object, cursor)]
    /\ UNCHANGED server

\* ------------------------------------------------- snippets, as inserted
RECURSIVE ExpandDefaults(_, _)
\* the text an editor inserts for a snippet text: each placeholder ${n:text}
\* gives its default text, in which \$, \} and \\ stand for $, } and \
\* (inside: the text is read within a placeholder, past its colon)
ExpandDefaults(text, inside) ==
    IF text = << >> THEN << >>
    ELSE IF ~inside
    THEN IF Len(text) >= 2 /\ text[1] = "$" /\ text[2] = "{"
         THEN LET colon == CHOOSE n \in DOMAIN text :
                              text[n] = ":" /\ \A m \in 1..(n - 1) : text[m] # ":"
              IN ExpandDefaults(SubSeq(text, colon + 1, Len(text)), TRUE)
         ELSE << Head(text) >> \o ExpandDefaults(Tail(text), FALSE)
    ELSE IF Head(text) = Backslash /\ Len(text) >= 2 /\ text[2] \in { "$", "}", Backslash }
         THEN << text[2] >> \o ExpandDefaults(SubSeq(text, 3, Len(text)), TRUE)
    ELSE IF Head(text) = "}" THEN ExpandDefaults(Tail(text), FALSE)
    ELSE << Head(text) >> \o ExpandDefaults(Tail(text), TRUE)

RECURSIVE DecodeString(_)
\* the characters a JSON string body stands for, as a sequence of at most one:
\* none when the body holds a bare quote or a backslash that starts no escape
DecodeString(body) ==
    IF body = << >> THEN << << >> >>
    ELSE IF Head(body) = Quote THEN << >>
    ELSE IF Head(body) = Backslash
    THEN IF Len(body) >= 2 /\ body[2] \in { Quote, Backslash }
         THEN LET rest == DecodeString(SubSeq(body, 3, Len(body)))
              IN IF rest = << >> THEN << >> ELSE << << body[2] >> \o rest[1] >>
         ELSE << >>
    ELSE LET rest == DecodeString(Tail(body))
         IN IF rest = << >> THEN << >> ELSE << << Head(body) >> \o rest[1] >>

\* JSON.parse of the text of a leaf: a string literal, a literal name, a
\* number of the examples, [] or {}
ParseJsonLeaf(text) ==
    IF text = << "[", "]" >> THEN JsonText(Arr(<< >>))
    ELSE IF text = << "{", "}" >> THEN JsonText(ObjectValue(<< >>))
    ELSE IF text = StringOf(NullValue) THEN JsonText(NullValue)
    ELSE IF text = StringOf(Bool(TRUE)) THEN JsonText(Bool(TRUE))
    ELSE IF text = StringOf(Bool(FALSE)) THEN JsonText(Bool(FALSE))
    ELSE IF \E n \in { 0, 12 } : text = Digits(n)
    THEN JsonText(Num(CHOOSE n \in { 0, 12 } : text = Digits(n)))
    ELSE IF Len(text) >= 2 /\ Head(text) = Quote /\ text[Len(text)] = Quote
    THEN LET decoded == DecodeString(SubSeq(text, 2, Len(text) - 1))
         IN IF decoded = << >> THEN BadText ELSE JsonText(Str(decoded[1]))
    ELSE BadText

RECURSIVE ParseInserted(_)
\* JSON.parse of the text inserted for a rendered snippet. The entries and
\* items stand on lines of their own, so a string a leaf leaves open cannot be
\* closed by the text that follows: the text parses when every leaf does.
ParseInserted(node) ==
    IF node.t = "text" THEN ParseJsonLeaf(ExpandDefaults(node.v, FALSE))
    ELSE IF node.t = "raw" THEN node.v
    ELSE LET parts == [n \in DOMAIN node.v |->
                          ParseInserted(IF node.t = "array" THEN node.v[n]
                                        ELSE node.v[n].value)]
         IN IF \E n \in DOMAIN parts : ~parts[n].parses THEN BadText
            ELSE IF node.t = "array"
            THEN JsonText(Arr([n \in DOMAIN parts |-> parts[n].value]))
            ELSE JsonText(ObjectValue([n \in DOMAIN parts |->
                                          Entry(node.v[n].key, parts[n].value)]))

RECURSIVE JsonEqual(_, _)
\* equality of JSON values, the order of an object's keys ignored
JsonEqual(a, b) ==
    IF a.t # b.t THEN FALSE
    ELSE IF a.t = "array"
    THEN Len(a.v) = Len(b.v) /\ \A n \in DOMAIN a.v : JsonEqual(a.v[n], b.v[n])
    ELSE IF a.t = "object"
    THEN /\ Len(a.v) = Len(b.v)
         /\ Keys(a) = Keys(b)
         /\ \A key \in Keys(a) : JsonEqual(GetKey(a, key), GetKey(b, key))
    ELSE a = b

CallBuildSnippetFromExample(example, kind) ==
    call' = [fn |-> "buildSnippetFromExample", kind |-> kind, arg |-> example,
             res |-> BuildSnippetFromExample(JsonText(example), kind)]
    /\ UNCHANGED server

\* ------------------------------------------------ augmenting an example
\* ensureAbilityConditions or ensureEnergyRendererBodyPart applied to the
\* value fn augments in place: prev is the value before the application, res
\* the value after it, applied the number of applications so far
Ensure(fn, value) ==
    IF fn = "ensureAbilityConditions" THEN EnsureAbilityConditions(value)
    ELSE EnsureEnergyRendererBodyPart(value)

CallEnsureAbilityConditions(root) ==
    call' = [fn |-> "ensureAbilityConditions", kind |-> "ability", arg |-> root,
             prev |-> root, res |-> Ensure("ensureAbilityConditions", root), applied |-> 1]
    /\ UNCHANGED server

CallEnsureEnergyRendererBodyPart(root) ==
    call' = [fn |-> "ensureEnergyRendererBodyPart", kind |-> "energy_renderer", arg |-> root,
             prev |-> root, res |-> Ensure("ensureEnergyRendererBodyPart", root),
             applied |-> 1]
    /\ UNCHANGED server

\* the function is applied once more, to the value it augmented
CallEnsureAgain ==
    /\ call.fn \in { "ensureAbilityConditions", "ensureEnergyRendererBodyPart" }
    /\ call.applied = 1
    /\ call' = [call EXCEPT !.prev = call.res, !.res = Ensure(call.fn, call.res),
                            !.applied = 2]
    /\ UNCHANGED server

\* --------------------------------------------------- snippet indentation
\* A text with its layout is the sequence of its characters, a run of
\* characters that are neither whitespace nor a bracket standing as one.
Space == " "
Tab == "\t"
Newline == "\n"
Whitespace == { Space, Tab, Newline }

RECURSIVE Repeat(_, _)
\* unit.repeat(n)
Repeat(unit, n) == IF n = 0 THEN << >> ELSE unit \o Repeat(unit, n - 1)

RECURSIVE Split(_)
\* text.split("\n")
Split(text) ==
    IF \A n \in DOMAIN text : text[n] # Newline THEN << text >>
    ELSE LET cut == CHOOSE n \in DOMAIN text :
                       text[n] = Newline /\ \A m \in 1..(n - 1) : text[m] # Newline
         IN << SubSeq(text, 1, cut - 1) >> \o Split(SubSeq(text, cut + 1, Len(text)))

RECURSIVE JoinLines(_)
\* lines.join("\n")
JoinLines(lines) ==
    IF Len(lines) = 1 THEN lines[1]
    ELSE lines[1] \o << Newline >> \o JoinLines(Tail(lines))

\* line.match(/^[ \t]*/)[0]
Leading(line) ==
    LET stops == { n \in DOMAIN line : line[n] \notin { Space, Tab } }
    IN IF stops = {} THEN line
       ELSE SubSeq(line, 1, (CHOOSE n \in stops : \A m \in stops : n <= m) - 1)

\* !line.trim()
IsBlank(line) == \A n \in DOMAIN line : line[n] \in Whitespace

\* the leading whitespace of the first line that has content and is indented,
\* as a sequence of at most one
DetectSnippetIndentUnit(snippet) ==
    LET lines == Split(snippet)
        hits == { n \in DOMAIN lines : ~IsBlank(lines[n]) /\ Leading(lines[n]) # << >> }
    IN IF hits = {} THEN << >>
       ELSE << Leading(lines[CHOOSE n \in hits : \A m \in hits : n <= m]) >>

RECURSIVE UnitsIn(_, _)
\* the while loop of reindentSnippetWithUnit: how often leading starts with unit
UnitsIn(leading, unit) ==
    IF Len(leading) >= Len(unit) /\ SubSeq(leading, 1, Len(unit)) = unit
    THEN 1 + UnitsIn(SubSeq(leading, Len(unit) + 1, Len(leading)), unit)
    ELSE 0

ReindentSnippetWithUnit(snippet, baseIndent, targetIndentUnit) ==
    LET snippetIndentUnit == DetectSnippetIndentUnit(snippet)
        lines == Split(snippet)
        Reindented(line) ==
            LET leading == Leading(line)
                content == SubSeq(line, Len(leading) + 1, Len(line))
            IN IF IsBlank(line) THEN line
               ELSE IF snippetIndentUnit = << >> \/ leading = << >>
               THEN baseIndent \o content
               ELSE baseIndent
                       \o Repeat(targetIndentUnit, UnitsIn(leading, snippetIndentUnit[1]))
                       \o content
    IN JoinLines([n \in DOMAIN lines |-> Reindented(lines[n])])

\* the unit the document is indented by: a tab if an indented line with
\* content has one in its indentation, else the least indentation of such a
\* line, else four spaces
DetermineIndentUnit(text) ==
    LET lines == Split(text)
        indents == { Leading(lines[n]) : n \in { m \in DOMAIN lines :
                        ~IsBlank(lines[m]) /\ Leading(lines[m]) # << >> } }
    IN IF \E indent \in indents : \E n \in DOMAIN indent : indent[n] = Tab THEN << Tab >>
       ELSE IF indents = {} THEN << Space, Space, Space, Space >>
       ELSE Repeat(<< Space >>,
                   CHOOSE c \in { Len(i) : i \in indents } : \A i \in indents : c <= Len(i))

\* document.positionAt(offset).line: the line breaks before the offset
LineAt(text, offset) == Cardinality({ n \in 1..offset : text[n] = Newline })

GetLineIndent(text, line) == Leading(Split(text)[line + 1])

\* the place (counted from 1) of the last character before the offset that is
\* no whitespace, or 0
FindPreviousNonWhitespaceIndex(text, offset) ==
    LET hits == { n \in 1..offset : text[n] \notin Whitespace }
    IN IF hits = {} THEN 0 ELSE CHOOSE n \in hits : \A m \in hits : m <= n

\* the place of the first character c of the text
PlaceOf(text, c) ==
    CHOOSE n \in DOMAIN text : text[n] = c /\ \A m \in 1..(n - 1) : text[m] # c

\* the place of the "]" that closes the array opened at place open
CloseOf(text, open) ==
    LET Count(c, to) == Cardinality({ n \in (open + 1)..to : text[n] = c })
    IN CHOOSE close \in (open + 1)..Len(text) :
          /\ text[close] = "]"
          /\ Count("[", close) + 1 = Count("]", close)
          /\ \A m \in (open + 1)..(close - 1) :
                text[m] = "]" => Count("[", m) + 1 # Count("]", m)

\* the array nodes of the text, each by the places of its brackets
ArrayNodes(text) ==
    { << open, CloseOf(text, open) >> : open \in { n \in DOMAIN text : text[n] = "[" } }

\* the innermost array whose range, bounds included, holds the offset
FindEnclosingArrayNode(text, offset) ==
    LET holding == { node \in ArrayNodes(text) : node[1] - 1 <= offset /\ offset <= node[2] }
    IN CHOOSE node \in holding : \A other \in holding : other[1] <= node[1]

\* the array is the value of the property listKey of the conditions object of
\* an ability entry, not an item of that value
IsConditionArrayContext(text, arrayNode, listKey) ==
    arrayNode[1] = PlaceOf(text, "[") /\ listKey \in { "enabling", "unlocking" }

\* applyIndentationToSnippet at the offset of a power file's text whose
\* outermost array is the value of the property listKey of the conditions
\* object of an ability entry; offset lies inside that array
ApplyIndentationToSnippet(snippet, text, listKey, offset) ==
    LET arrayNode == FindEnclosingArrayNode(text, offset)
        arrayStart == arrayNode[1]
        arrayEnd == arrayNode[2]
        arrayStartLine == LineAt(text, arrayStart - 1)
        arrayIndent == GetLineIndent(text, arrayStartLine)
        indentUnit == DetermineIndentUnit(text)
        itemIndent == arrayIndent \o indentUnit
        prevCharIdx == FindPreviousNonWhitespaceIndex(text, offset)
        prevChar == IF prevCharIdx = 0 THEN "" ELSE text[prevCharIdx]
        prevCharLine == IF prevCharIdx = 0 THEN -1 ELSE LineAt(text, prevCharIdx - 1)
        line == LineAt(text, offset)
        currentIndent == GetLineIndent(text, line)
        beforeCommaIdx == IF prevCharIdx = 0 THEN 0
                          ELSE FindPreviousNonWhitespaceIndex(text, prevCharIdx - 1)
        ReindentFromBase(baseIndent) == ReindentSnippetWithUnit(snippet, baseIndent, indentUnit)
    IN IF ~IsConditionArrayContext(text, arrayNode, listKey) THEN snippet
       ELSE IF prevChar = "[" /\ prevCharLine = arrayStartLine
       THEN IF LineAt(text, arrayEnd - 1) = arrayStartLine
            THEN << Newline >> \o ReindentFromBase(itemIndent) \o << Newline >> \o arrayIndent
            ELSE << Newline >> \o ReindentFromBase(itemIndent)
       ELSE IF prevChar = "}" /\ prevCharLine = line
       THEN << Newline >> \o ReindentFromBase(GetLineIndent(text, prevCharLine))
       ELSE IF /\ prevChar = "," /\ prevCharLine = line
               /\ beforeCommaIdx # 0 /\ text[beforeCommaIdx] = "}"
       THEN << Newline >> \o ReindentFromBase(GetLineIndent(text, prevCharLine))
       ELSE IF currentIndent # << >> THEN ReindentFromBase(currentIndent)
       ELSE ReindentFromBase(itemIndent)

RECURSIVE SnippetLines(_, _, _)
RECURSIVE ItemLines(_, _, _, _)
\* the lines renderValue writes for a rendered value at depth, each with its
\* depth and its text after the indentation; prefix is the text before the
\* value on its first line
SnippetLines(node, depth, prefix) ==
    IF node.t \in { "array", "object" }
    THEN << [depth |-> depth, content |-> prefix \o << IF node.t = "array" THEN "[" ELSE "{" >>] >>
            \o ItemLines(node, 1, depth + 1, node.t)
            \o << [depth |-> depth, content |-> << IF node.t = "array" THEN "]" ELSE "}" >>] >>
    ELSE << [depth |-> depth, content |-> prefix \o node.v] >>

\* the lines of the items (or entries) n.. of a rendered array (or object),
\* joined by ",\n"
ItemLines(node, n, depth, type) ==
    IF n > Len(node.v) THEN << >>
    ELSE LET item == IF type = "array"
                     THEN SnippetLines(node.v[n], depth, << >>)
                     ELSE SnippetLines(node.v[n].value, depth,
                                       << Quote, node.v[n].key, Quote, ":", Space >>)
             last == item[Len(item)]
         IN (IF n < Len(node.v)
             THEN [item EXCEPT ![Len(item)] =
                      [depth |-> last.depth, content |-> last.content \o << "," >>]]
             ELSE item)
               \o ItemLines(node, n + 1, depth, type)

\* the indentUnit of renderValue
SnippetIndentUnit == << Space, Space, Space, Space >>

\* the text renderValue returns for a rendered value
SnippetText(node) ==
    LET lines == SnippetLines(node, 0, << >>)
    IN JoinLines([n \in DOMAIN lines |->
                     Repeat(SnippetIndentUnit, lines[n].depth) \o lines[n].content])

\* examples of condition blocks
ConditionExamples ==
    { Num(12),
      ObjectValue(<< >>),
      ObjectValue(<< Entry("type", Str(<< "a" >>)), Entry("value", Num(12)) >>),
      ObjectValue(<< Entry("type", Str(<< "a" >>)),
                     Entry("list", Arr(<< Num(12), ObjectValue(<< Entry("k", NullValue) >>) >>)),
                     Entry("on", Bool(TRUE)) >>) }

\* the indentations of the lines of a document
Indents == { << >>, << Space >>, << Space, Space >>, << Tab >>, << Tab, Space >> }

\* a power file: the ability entry a1 opens on the first line, the array
\* listKey of its conditions on the second, followed by gap and, if nested,
\* by an empty array as its first item; the array closes on that line
\* (sameLine) or holds an object on the third line and closes on the fifth,
\* the fourth holding only indentation
IndentedDocument(leads, gap, nested, sameLine, listKey) ==
    LET closing == << "]", "}", "}", "}", "}" >>
        first == IF nested THEN << "[", "]" >> ELSE << >>
    IN leads[1] \o << "{", "abilities", ":", "{", "a1", ":", "{", "conditions", ":", "{" >>
          \o << Newline >> \o leads[2] \o << listKey, ":", Space, "[" >> \o gap
          \o (IF sameLine THEN first \o closing
              ELSE (IF nested THEN first \o << "," >> ELSE << >>)
                      \o << Newline >> \o leads[3] \o << "{", "}", "," >>
                      \o << Newline >> \o leads[3]
                      \o << Newline >> \o leads[1] \o closing)

IndentedDocuments ==
    { IndentedDocument(leads, gap, nested, sameLine, listKey) :
        leads \in { << >>, << Space >> } \X Indents \X Indents,
        gap \in { << >>, << Space >> },
        nested \in BOOLEAN,
        sameLine \in BOOLEAN,
        listKey \in { "enabling", "other" } }

\* the offsets inside the array of the document
ArrayOffsets(text) == PlaceOf(text, "[") .. (CloseOf(text, PlaceOf(text, "[")) - 1)

\* the snippet of a condition record, with the comma shouldAddTrailingComma
\* asks for, indented for the offset of the document
CallApplyIndentationToSnippet(example, needsComma, text, offset) ==
    LET node == BuildSnippetFromExample(JsonText(example), "condition").snippet
        snippet == SnippetText(node) \o (IF needsComma THEN << "," >> ELSE << >>)
        listKey == text[PlaceOf(text, "[") - 3]
    IN /\ call' = [fn |-> "applyIndentationToSnippet", kind |-> "condition",
                   arg |-> node, needsComma |-> needsComma, text |-> text,
                   listKey |-> listKey, offset |-> offset,
                   res |-> ApplyIndentationToSnippet(snippet, text, listKey, offset)]
       /\ UNCHANGED server

\* ------------------------------------------------- requests on a document
\* The tree parseTree makes of a document is a JSON value, NoTree when it makes
\* none. A node is addressed by the steps from the root to it: the key of an
\* object entry, or the index of an array item written as a string.
NoTree == [t |-> "none", v |-> << >>]
IndexSteps == << "0", "1" >>

Front(addr) == SubSeq(addr, 1, Len(addr) - 1)
Last(addr) == addr[Len(addr)]

RECURSIVE ValueAt(_, _)
ValueAt(root, addr) ==
    IF addr = << >> THEN root
    ELSE IF root.t = "object" THEN ValueAt(GetKey(root, Head(addr)), Tail(addr))
    ELSE ValueAt(root.v[CHOOSE n \in DOMAIN IndexSteps : IndexSteps[n] = Head(addr)],
                 Tail(addr))

RECURSIVE Addrs(_)
\* the addresses of the nodes of a value
Addrs(value) ==
    { << >> } \cup
       (IF value.t = "object"
        THEN UNION { { << value.v[n].key >> \o a : a \in Addrs(value.v[n].value) } :
                        n \in DOMAIN value.v }
        ELSE IF value.t = "array"
        THEN UNION { { << IndexSteps[n] >> \o a : a \in Addrs(value.v[n]) } :
                        n \in DOMAIN value.v }
        ELSE {})

\* the node at addr is the value of a property
IsPropertyValue(root, addr) == addr # << >> /\ ValueAt(root, Front(addr)).t = "object"

\* The cursor of a request: in the key of the property whose value is at addr
\* ("key"), or in the node at addr and in none of its children ("value").
\* findNodeAtOffset returns the key node or the node at addr.
TreeCursors(root) ==
    IF root = NoTree THEN { [addr |-> << >>, at |-> "value"] }
    ELSE { [addr |-> addr, at |-> "value"] : addr \in Addrs(root) }
            \cup { [addr |-> addr, at |-> "key"] :
                      addr \in { a \in Addrs(root) : IsPropertyValue(root, a) } }

\* the prefixes of addr, addr included
Prefixes(addr) == { SubSeq(addr, 1, n) : n \in 0..Len(addr) }

\* the longest of a set of prefixes of one address, as a sequence of at most one
Longest(addrs) ==
    IF addrs = {} THEN << >>
    ELSE << CHOOSE a \in addrs : \A b \in addrs : Len(b) <= Len(a) >>

\* getPropertyNode(node): the nearest property at or above the node, by the
\* address of its value
GetPropertyNode(root, cursor) ==
    Longest({ p \in Prefixes(cursor.addr) : IsPropertyValue(root, p) })

\* getEnclosingObject(node): the nearest object at or above the node
GetEnclosingObject(root, cursor) ==
    IF cursor.at = "key" THEN << Front(cursor.addr) >>
    ELSE Longest({ p \in Prefixes(cursor.addr) : ValueAt(root, p).t = "object" })

\* the nearest array at or above the node
EnclosingArray(root, cursor) ==
    Longest({ p \in Prefixes(IF cursor.at = "key" THEN Front(cursor.addr) ELSE cursor.addr) :
                ValueAt(root, p).t = "array" })

\* getLocation(text, offset).path
LocationPath(root, cursor) ==
    IF cursor.at = "key" THEN cursor.addr
    ELSE IF ValueAt(root, cursor.addr).t = "object" THEN cursor.addr \o << "" >>
    ELSE IF ValueAt(root, cursor.addr).t = "array" THEN cursor.addr \o << "0" >>
    ELSE cursor.addr

\* getLocation(text, offset).isAtPropertyKey
IsAtPropertyKey(root, cursor) ==
    cursor.at = "key" \/ ValueAt(root, cursor.addr).t = "object"

\* the object at o is a value of the object that is the value of a property
\* named abilities
IsAbilityEntryObjectContext(root, o) ==
    /\ Len(o) >= 2
    /\ IsPropertyValue(root, o)
    /\ IsPropertyValue(root, Front(o))
    /\ Last(Front(o)) = "abilities"

\* the array at a is the enabling or unlocking value of the conditions object
\* of an ability entry
IsConditionList(root, a) ==
    /\ IsPropertyValue(root, a)
    /\ Last(a) \in { "enabling", "unlocking" }
    /\ IsPropertyValue(root, Front(a))
    /\ Last(Front(a)) = "conditions"
    /\ IsAbilityEntryObjectContext(root, Front(Front(a)))

IsConditionEntryObjectContext(root, o) ==
    /\ o # << >>
    /\ ValueAt(root, Front(o)).t = "array"
    /\ IsConditionList(root, Front(o))

\* isConditionArrayContext(node) for the node under the cursor
ConditionArrayContext(root, cursor) ==
    LET array == EnclosingArray(root, cursor)
    IN array # << >> /\ IsConditionList(root, array[1])

ResolveKindFromPath(path) ==
    IF \E i \in DOMAIN path :
          /\ path[i] = "conditions"
          /\ \E j \in 1..i : path[j] = "abilities"
          /\ i + 1 \in DOMAIN path
          /\ path[i + 1] \in { "enabling", "unlocking" }
    THEN "condition"
    ELSE IF \E j \in DOMAIN path : path[j] = "abilities" THEN "ability"
    ELSE "undefined"

ResolveSnippetCompletionContext(root, cursor) ==
    LET object == GetEnclosingObject(root, cursor)
    IN IF root = NoTree THEN "undefined"
       ELSE IF cursor.at = "key" THEN "undefined"
       ELSE IF object # << >> /\ IsAbilityEntryObjectContext(root, object[1]) THEN "ability"
       ELSE IF object # << >> /\ IsConditionEntryObjectContext(root, object[1])
       THEN "condition"
       ELSE IF ConditionArrayContext(root, cursor) THEN "condition"
       ELSE ResolveKindFromPath(LocationPath(root, cursor))

IsEnergyBeamRootArrayContext(array) == array = << >>

IsEnergyBeamEntryObjectContext(root, o) ==
    /\ o # << >>
    /\ ValueAt(root, Front(o)).t = "array"
    /\ IsEnergyBeamRootArrayContext(Front(o))

ShouldOfferEnergyRendererSnippets(fsPath, root, cursor) ==
    LET object == GetEnclosingObject(root, cursor)
        array == EnclosingArray(root, cursor)
    IN IF ~IsEnergyBeamsFilePath(fsPath) THEN FALSE
       ELSE IF root = NoTree THEN FALSE
       ELSE IF object # << >> /\ IsEnergyBeamEntryObjectContext(root, object[1]) THEN FALSE
       ELSE array # << >> /\ IsEnergyBeamRootArrayContext(array[1])

\* findTypeIdentifier(objectNode): the string of the type entry of the object
\* at o, as a sequence of at most one
TypeIdentifierAt(root, o) ==
    LET object == ValueAt(root, o)
    IN IF "type" \in Keys(object) /\ GetKey(object, "type").t = "string"
       THEN << GetKey(object, "type").v >> ELSE << >>

\* the part the two field completion resolvers share, entry telling whether
\* the enclosing object is an entry of the kind and known holding the ids of
\* the kind's records that have fields: whether a context is returned
FieldCompletionContext(root, cursor, entry, known) ==
    LET object == GetEnclosingObject(root, cursor)
        typeId == TypeIdentifierAt(root, object[1])
    IN /\ object # << >>
       /\ entry
       /\ IsAtPropertyKey(root, cursor)
       /\ typeId # << >> /\ typeId[1] # << >>
       /\ typeId[1] \in known
       /\ cursor.at = "key" => Front(cursor.addr) = object[1]

ResolveAbilityFieldCompletionContextAt(root, cursor, known) ==
    /\ root # NoTree
    /\ FieldCompletionContext(root, cursor,
          LET object == GetEnclosingObject(root, cursor)
          IN object # << >> /\ IsAbilityEntryObjectContext(root, object[1]),
          known)

ResolveEnergyRendererFieldCompletionContext(fsPath, root, cursor, known) ==
    /\ IsEnergyBeamsFilePath(fsPath)
    /\ root # NoTree
    /\ FieldCompletionContext(root, cursor,
          LET object == GetEnclosingObject(root, cursor)
          IN object # << >> /\ IsEnergyBeamEntryObjectContext(root, object[1]),
          known)

\* what onCompletion returns: field names ("fields"), the snippets of a kind,
\* or the empty list ("none")
OnCompletionResult(fsPath, root, cursor, known) ==
    LET ctx == ResolveSnippetCompletionContext(root, cursor)
    IN IF ResolveEnergyRendererFieldCompletionContext(fsPath, root, cursor, known)
       THEN "fields"
       ELSE IF ResolveAbilityFieldCompletionContextAt(root, cursor, known) THEN "fields"
       ELSE IF ShouldOfferEnergyRendererSnippets(fsPath, root, cursor)
       THEN "energy_renderer"
       ELSE IF ctx \in { "condition", "ability" } THEN ctx
       ELSE "none"

\* resolveHoverContext on the tree
ResolveHoverContextAt(fsPath, root, cursor) ==
    LET property == GetPropertyNode(root, cursor)
        object == Front(property[1])
        key == Last(property[1])
        value == ValueAt(root, property[1])
        docKind == IF IsEnergyBeamsFilePath(fsPath) THEN "energy_renderer"
                   ELSE DocKindFromPath(object)
        entryId == TypeIdentifierAt(root, object)
    IN IF root = NoTree THEN NoHover
       ELSE IF property = << >> THEN NoHover
       ELSE IF docKind = "undefined" THEN NoHover
       ELSE IF entryId = << >> \/ entryId = << << >> >> THEN NoHover
       ELSE IF /\ key = "type" /\ value.t = "string"
               /\ cursor.at = "value" /\ cursor.addr = property[1]
       THEN [found |-> TRUE, kind |-> "ability", docKind |-> docKind, entryId |-> value.v,
             object |-> object]
       ELSE IF key # "type"
       THEN [found |-> TRUE, kind |-> "field", docKind |-> docKind, entryId |-> entryId[1],
             fieldName |-> key, object |-> object]
       ELSE NoHover

RECURSIVE ObjectsOf(_, _)
RECURSIVE ObjectsOfItems(_, _, _)
\* the object nodes of a value at path, in the order visitNode reaches them
ObjectsOf(value, path) ==
    IF value.t = "object"
    THEN << Obj(path, [n \in DOMAIN value.v |->
                         Prop(value.v[n].key, value.v[n].value.t,
                              IF value.v[n].value.t = "string" /\ Len(value.v[n].value.v) = 1
                              THEN value.v[n].value.v[1] ELSE "")]) >>
            \o ObjectsOfItems(value, path, 1)
    ELSE IF value.t = "array" THEN ObjectsOfItems(value, path, 1)
    ELSE << >>

ObjectsOfItems(value, path, n) ==
    IF n > Len(value.v) THEN << >>
    ELSE (IF value.t = "object"
          THEN ObjectsOf(value.v[n].value, path \o << value.v[n].key >>)
          ELSE ObjectsOf(value.v[n], path \o << IndexSteps[n] >>))
            \o ObjectsOfItems(value, path, n + 1)

\* the document as validateDocument walks it
TreeText(root) == IF root = NoTree THEN TextUnparsed ELSE Text(TRUE, ObjectsOf(root, << >>))

\* the trees of the documents requests are made on
TreeDocuments ==
    LET TypeEntry(id) == Entry("type", Str(<< id >>))
        ConditionsEntry(list) == Entry("conditions", ObjectValue(<< Entry("enabling", list),
                                                                Entry("unlocking", Arr(<< >>)) >>))
        AbilitiesDocument(entry) == ObjectValue(<< Entry("abilities",
                                                 ObjectValue(<< Entry("a1", entry) >>)) >>)
    IN { NoTree,
         AbilitiesDocument(ObjectValue(<< TypeEntry("a:x"), Entry("power", Num(12)),
                                  ConditionsEntry(Arr(<< ObjectValue(<< TypeEntry("c:x") >>) >>)) >>)),
         AbilitiesDocument(ObjectValue(<< TypeEntry("a:x"),
                                  Entry("extra", ObjectValue(<< ConditionsEntry(Arr(<< >>)) >>)) >>)),
         AbilitiesDocument(ObjectValue(<< ConditionsEntry(Arr(<< Arr(<< >>) >>)) >>)),
         Arr(<< ObjectValue(<< TypeEntry("r:x"),
                               Entry("settings", ObjectValue(<< Entry("k", Num(12)) >>)) >>),
                Arr(<< ObjectValue(<< TypeEntry("r:x") >>) >>) >>),
         ObjectValue(<< TypeEntry("r:x"), Entry("size", Num(12)) >>),
         ObjectValue(<< Entry("conditions", ObjectValue(<< TypeEntry("c:x") >>)) >>) }

\* the ids of the records that have fields, of all three snapshots
KnownIds == { {}, { << "a:x" >>, << "c:x" >>, << "r:x" >> } }

\* the requests made at a cursor of a document: the contexts the resolvers
\* return, the completion result and the diagnostics validation publishes
CallRequests(fsPath, root, cursor, known) ==
    call' = [fn |-> "requests", kind |-> "ability", fsPath |-> fsPath, arg |-> root,
             cursor |-> cursor, known |-> known,
             hover |-> ResolveHoverContextAt(fsPath, root, cursor),
             snippetContext |-> ResolveSnippetCompletionContext(root, cursor),
             abilityFields |-> ResolveAbilityFieldCompletionContextAt(root, cursor, known),
             energyFields |->
                ResolveEnergyRendererFieldCompletionContext(fsPath, root, cursor, known),
             energySnippets |-> ShouldOfferEnergyRendererSnippets(fsPath, root, cursor),
             res |-> OnCompletionResult(fsPath, root, cursor, known),
             diagnostics |->
                ValidateDocument(TreeText(root),
                                 BuildAbilityMap(IF known = {} THEN << >>
                                                 ELSE << Rec("a:x", { "power" }) >>))]
    /\ UNCHANGED server

FunctionsInit == Init /\ volatile = "ability"

\* no function was applied yet: a behaviour applies one function to one input
Idle == call = NoCall

FunctionsNext ==
    \/ Idle /\ \E html \in HtmlInputs : \E docKind \in Kinds : CallParseAbilityHtml(html, docKind)
    \/ Idle /\ \E text \in ValidatedTexts : \E map \in ValidationMaps : CallValidateDocument(text, map)
    \/ Idle /\ \E props \in ObjectProps : \E map \in ValidationMaps :
          CallValidateAbilityObject(props, map)
    \/ Idle /\ \E props \in ObjectProps : \E cursor \in Cursors(props) : \E map \in ValidationMaps :
          CallOnCompletion(props, cursor, map)
    \/ Idle /\ \E fsPath \in HoverPaths : \E key \in { "a1", "conditions" } :
          \E props \in HoverObjects : \E cursor \in HoverCursors(props) :
             CallResolveHoverContext(fsPath, key, props, cursor)
    \/ Idle /\ \E kind \in Kinds : \E example \in Examples(kind) :
          CallBuildSnippetFromExample(example, kind)
    \/ Idle /\ \E root \in AbilityExamples : CallEnsureAbilityConditions(root)
    \/ Idle /\ \E root \in EnergyRendererExamples : CallEnsureEnergyRendererBodyPart(root)
    \/ Idle /\ \E example \in ConditionExamples : \E needsComma \in BOOLEAN :
          \E text \in IndentedDocuments : \E offset \in ArrayOffsets(text) :
             CallApplyIndentationToSnippet(example, needsComma, text, offset)
    \/ Idle /\ \E fsPath \in HoverPaths : \E root \in TreeDocuments :
          \E cursor \in TreeCursors(root) : \E known \in KnownIds :
             CallRequests(fsPath, root, cursor, known)
    \/ CallEnsureAgain

Functions == FunctionsInit /\ [][FunctionsNext]_vars

\* C13: a block with an id and example text, none of which parses as JSON, is
\* kept: unless a later block of the same id replaces it, the parsed source
\* holds a record of its id whose snippet is the raw example text.
C13_UnparseableExampleIsKept ==
    call.fn = "parseAbilityHtml"
        => \A n \in DOMAIN call.arg :
              LET block == call.arg[n]
              IN (/\ IncludesColon(block.id)
                  /\ block.pres # << >>
                  /\ \A m \in DOMAIN block.pres : ~block.pres[m].parses
                  /\ \A m \in DOMAIN call.arg : call.arg[m].id = block.id => m <= n)
                    => \E r \in DOMAIN call.res :
                          /\ call.res[r].id = block.id
                          /\ call.res[r].snippet = [t |-> "raw", v |-> block.pres[1]]

\* the diagnostics of res that belong to object obj
DiagnosticsOf(res, obj) == SelectSeq(res, LAMBDA d : d.obj = obj)

\* C14: for every object that is a value inside the abilities map and whose
\* type property is a string the ability snapshot does not hold, validation
\* emits exactly one unknown-type error, on the type's value, and no other
\* diagnostic for that object, whatever its other keys and its own key.
C14_UnknownTypeExactlyOneError ==
    call.fn = "validateDocument"
        => \A n \in DOMAIN call.arg.objects :
              LET object == call.arg.objects[n]
                  t == FindPropertyValueNode(object.props, "type")
              IN (/\ Len(object.path) = 2
                  /\ object.path[1] = "abilities"
                  /\ t # 0
                  /\ object.props[t].vtype = "string"
                  /\ object.props[t].value \notin DOMAIN call.map)
                    => DiagnosticsOf(call.res, n)
                          = << Diagnostic("unknown_type", n, t, "value", object.props[t].value) >>

C16_CompletionSkipsUsedFields ==
    (call.fn = "onCompletion" /\ call.found)
        => LET props == call.arg.props
               own == IF call.cursor.at = "key" THEN { call.cursor.prop } ELSE {}
               siblings == { props[n].key : n \in DOMAIN props \ own }
           IN /\ \A name \in call.res : name \notin siblings
              /\ call.res = call.map[FindTypeIdentifier(props)[1]].fields \ siblings

\* the cursor is in the key "bogus", which a sibling holds too: of the
\* record's fields power and bogus only power is offered
C16_Witness ==
    /\ call.fn = "onCompletion"
    /\ call.found
    /\ call.arg.props = << Prop("type", "string", "a:x"), Prop("bogus", "number", "2"),
                           Prop("bogus", "number", "2") >>
    /\ call.cursor = Cursor("key", 2)
    /\ call.map["a:x"].fields = { "power", "bogus" }
    /\ call.res = { "power" }

\* C17: whenever the cursor is inside the string value of a type property of
\* an object that is a value of the abilities map, the hover context is an
\* entity reference (kind "ability") whose entryId is that string and whose
\* docKind is "ability".
C17_TypeValueHoverIsAbilityReference ==
    (/\ call.fn = "resolveHoverContext"
     /\ IsAbilityEntryObject(call.arg)
     /\ call.cursor.at = "value"
     /\ call.arg.props[call.cursor.prop].key = "type"
     /\ call.arg.props[call.cursor.prop].vtype = "string")
        => /\ call.res.found
           /\ call.res.kind = "ability"
           /\ call.res.entryId = call.arg.props[call.cursor.prop].value
           /\ call.res.docKind = "ability"

\* C18: for every valid ability example, the snippet buildSnippetFromExample
\* gives, each placeholder replaced by its default text, parses as JSON equal
\* to the example, with the conditions block {enabling: [], unlocking: []}
\* added when the example has no conditions.
C18_SnippetRoundTrips ==
    (call.fn = "buildSnippetFromExample" /\ call.kind = "ability")
        => LET inserted == ParseInserted(call.res.snippet)
               expected == IF IsPlainObject(call.arg) /\ "conditions" \notin Keys(call.arg)
                           THEN SetKey(call.arg, "conditions", CreateEmptyConditionsBlock)
                           ELSE call.arg
           IN inserted.parses /\ JsonEqual(inserted.value, expected)

\* the keys of a rendered object, in the order of its lines
SnippetKeys(node) == [n \in DOMAIN node.v |-> node.v[n].key]

\* the rendered object has a body_part line whose inserted text is "head"
HasHeadBodyPart(node) ==
    \E n \in DOMAIN node.v :
        /\ node.v[n].key = "body_part"
        /\ node.v[n].value.t = "text"
        /\ ExpandDefaults(node.v[n].value.v, FALSE) = << Quote >> \o HeadText \o << Quote >>

\* the lines of the rendered object other than body_part are the entries of
\* the example object, in their order
OtherKeysKept(object, node) ==
    SelectSeq(SnippetKeys(node), LAMBDA key : key # "body_part")
        = [n \in DOMAIN object.v |-> object.v[n].key]

\* the body_part line of the rendered object follows its type line
BodyPartFollowsType(node) ==
    \E n \in DOMAIN node.v :
        /\ n + 1 \in DOMAIN node.v
        /\ node.v[n].key = "type"
        /\ node.v[n + 1].key = "body_part"

\* C19 as stated: for every energy renderer example that lacks body_part, the
\* snippet has a body_part line right after the type line, with the default
\* text "head", and the other keys keep their order.
C19_BodyPartFollowsType ==
    (/\ call.fn = "buildSnippetFromExample" /\ call.kind = "energy_renderer"
     /\ IsPlainObject(call.arg) /\ "body_part" \notin Keys(call.arg))
        => /\ call.res.snippet.t = "object"
           /\ HasHeadBodyPart(call.res.snippet)
           /\ BodyPartFollowsType(call.res.snippet)
           /\ OtherKeysKept(call.arg, call.res.snippet)

\* an example object that lacks body_part is rendered with one: right after
\* its type line if it has a type, as its last line otherwise
BodyPartPlaced(object, node) ==
    /\ node.t = "object"
    /\ HasHeadBodyPart(node)
    /\ OtherKeysKept(object, node)
    /\ Len(node.v) = Len(object.v) + 1
    /\ IF "type" \in Keys(object) THEN BodyPartFollowsType(node)
       ELSE node.v[Len(node.v)].key = "body_part"

\* C19, amended: an energy renderer example that is an object lacking
\* body_part is rendered with a body_part line of default text "head", right
\* after the type line if the object has a type and as the last line if it has
\* none, the other keys keeping their order; so is every such object that is
\* an item of an example array; an example that is neither is rendered
\* without a body_part.
C19_BodyPartFollowsTypeOrIsLast ==
    (call.fn = "buildSnippetFromExample" /\ call.kind = "energy_renderer")
        => LET example == call.arg
               snippet == call.res.snippet
               Lacks(value) == IsPlainObject(value) /\ "body_part" \notin Keys(value)
           IN /\ Lacks(example) => BodyPartPlaced(example, snippet)
              /\ (IsArray(example) /\ example.v # << >>)
                    => /\ snippet.t = "array"
                       /\ Len(snippet.v) = Len(example.v)
                       /\ \A n \in DOMAIN example.v :
                             Lacks(example.v[n]) => BodyPartPlaced(example.v[n], snippet.v[n])
              /\ (~IsPlainObject(example) /\ ~IsArray(example))
                    => snippet = RenderValue(example, 1).node

\* the example {"size": 12, "type": "a", "color": null} is rendered with
\* body_part between type and color
C19_Witness ==
    /\ call.fn = "buildSnippetFromExample" /\ call.kind = "energy_renderer"
    /\ call.arg = ObjectValue(<< RendererEntry("size"), RendererEntry("type"),
                                 RendererEntry("color") >>)
    /\ SnippetKeys(call.res.snippet) = << "size", "type", "body_part", "color" >>

\* the function applied was one of the two that augment an example
Ensured ==
    call.fn \in { "ensureAbilityConditions", "ensureEnergyRendererBodyPart" }

\* a second application changes nothing: same keys, values and key order
Idempotent == (Ensured /\ call.applied = 2) => call.res = call.prev

\* the entry is an entry of the object, key and value
HasEntry(object, entry) == \E n \in DOMAIN object.v : object.v[n] = entry

\* C20 as stated: ensureAbilityConditions and ensureEnergyRendererBodyPart are
\* idempotent, and the first application of ensureAbilityConditions discards
\* no existing entry of the object or of its conditions block: every entry of
\* the object other than conditions, and every entry of the conditions value
\* it had, is an entry after it.
C20_EnsureIdempotentKeepsEntries ==
    /\ Idempotent
    /\ (call.fn = "ensureAbilityConditions" /\ call.applied = 1 /\ IsPlainObject(call.arg))
          => /\ \A n \in DOMAIN call.arg.v :
                   call.arg.v[n].key # "conditions" => HasEntry(call.res, call.arg.v[n])
             /\ "conditions" \in Keys(call.arg)
                   => LET before == GetKey(call.arg, "conditions")
                          after == GetKey(call.res, "conditions")
                      IN IF IsPlainObject(before)
                         THEN \A n \in DOMAIN before.v : HasEntry(after, before.v[n])
                         ELSE after = before

\* the conditions block completed: an enabling or unlocking value that is no
\* array becomes [] in its place, a missing one is added last, enabling first
CompletedBlock(block) ==
    LET fixed == [n \in DOMAIN block.v |->
                     IF block.v[n].key \in { "enabling", "unlocking" }
                           /\ ~IsArray(block.v[n].value)
                     THEN Entry(block.v[n].key, Arr(<< >>)) ELSE block.v[n]]
        added == SelectSeq(<< "enabling", "unlocking" >>, LAMBDA key : key \notin Keys(block))
    IN ObjectValue(fixed \o [n \in DOMAIN added |-> Entry(added[n], Arr(<< >>))])

\* C20, amended: both functions are idempotent, and the first application of
\* ensureAbilityConditions to an object removes no key and moves none, keeps
\* every entry other than conditions as it is, and keeps every entry of a
\* conditions object except an enabling or unlocking value that is no array,
\* which becomes []; a conditions value that is no object is replaced by the
\* empty block; a value that is no object is left alone.
C20_EnsureIdempotentKeepsWellFormed ==
    /\ Idempotent
    /\ (call.fn = "ensureAbilityConditions" /\ call.applied = 1)
          => IF ~IsPlainObject(call.arg) THEN call.res = call.arg
             ELSE LET had == "conditions" \in Keys(call.arg)
                      block == IF had /\ IsPlainObject(GetKey(call.arg, "conditions"))
                               THEN CompletedBlock(GetKey(call.arg, "conditions"))
                               ELSE CreateEmptyConditionsBlock
                  IN call.res =
                        ObjectValue([n \in DOMAIN call.arg.v |->
                                        IF call.arg.v[n].key = "conditions"
                                        THEN Entry("conditions", block) ELSE call.arg.v[n]]
                                    \o (IF had THEN << >>
                                        ELSE << Entry("conditions", block) >>))

\* an object whose conditions block lacked unlocking and held a note was
\* completed, and a second application left it as it was
C20_Witness ==
    /\ call.fn = "ensureAbilityConditions" /\ call.applied = 2
    /\ call.arg = ObjectValue(<< Entry("type", Str(<< "a" >>)),
                                 Entry("conditions",
                                       ObjectValue(<< Entry("unlocking", Arr(<< >>)),
                                                      Entry("note", Str(<< "a" >>)),
                                                      Entry("enabling", Str(<< "a" >>)) >>)) >>)
    /\ GetKey(call.res, "conditions")
          = ObjectValue(<< Entry("unlocking", Arr(<< >>)), Entry("note", Str(<< "a" >>)),
                           Entry("enabling", Arr(<< >>)) >>)
    /\ call.res = call.prev

\* C11: once the shutdown handler has run, no kind has a live watcher, a
\* pending debounce timer or a recorded watch target, in every later state.
C11_ShutdownReleasesForGood ==
    session = "shutdown"
        => \A k \in Kinds :
              /\ fsWatchers[k] = {}
              /\ timers[k] = {}
              /\ watchStates[k].target = Null
              /\ watchStates[k].watcher = NoWatcher

\* what a reload of kind publishes when its I/O returned io
ReloadResult(kind, io) ==
    CASE kind = "ability" -> ReloadAbilitiesResult(preferredSources, io)
      [] kind = "condition" -> ReloadConditionsResult(preferredSources, io)
      [] kind = "energy_renderer" -> ReloadEnergyRenderersResult(preferredSources, io)

\* the completing reload of kind calls fs.watch: it records a target and holds
\* no watcher for that very target
WatchAttempted(kind) ==
    /\ watchStates'[kind].target # Null
    /\ \/ watchStates[kind].watcher = NoWatcher
       \/ watchStates'[kind].target # watchStates[kind].target

\* C12: when fs.watch fails in a completing reload, the reload still
\* publishes its list and map, records the target, validates the open
\* documents again and (an initial load) lets initialization go on, and the
\* kind has no live watcher; a later reload of a kind left without a watcher
\* whose fs.watch succeeds opens the watcher.
C12_WatchFailureDegrades ==
    [][\A k \in Kinds : Completes(k) =>
          \A io \in EnvOutcomes(k) : \A initial \in BOOLEAN :
             /\ (ReloadOf(k, initial, io, FALSE) /\ WatchAttempted(k))
                   => /\ SnapshotList(k)' = ReloadResult(k, io).list
                      /\ SnapshotMap(k)' = BuildAbilityMap(SnapshotList(k)')
                      /\ watchStates'[k].target = ReloadResult(k, io).target
                      /\ watchStates'[k].watcher = NoWatcher
                      /\ fsWatchers'[k] = {}
                      /\ \A u \in Uris :
                            documents'[u] # Closed
                               => diagnostics'[u] = ValidateDocument(documents'[u], abilityMap')
                      /\ initial => k \notin initialLoads'
             /\ (/\ ReloadOf(k, initial, io, TRUE)
                 /\ watchStates[k].watcher = NoWatcher
                 /\ watchStates[k].target # Null
                 /\ watchStates'[k].target # Null)
                   => /\ watchStates'[k].watcher # NoWatcher
                      /\ fsWatchers'[k] = { [id |-> watchStates'[k].watcher,
                                             target |-> watchStates'[k].target] }]_vars

\* initialization completed although fs.watch failed for the abilities, whose
\* loaded snapshot is published and used to validate an open document
C12_Witness ==
    /\ session = "ready"
    /\ abilities = << Rec("a:x", {"power"}) >>
    /\ watchStates["ability"].target.kind = "file"
    /\ watchStates["ability"].watcher = NoWatcher
    /\ fsWatchers["ability"] = {}
    /\ \E u \in Uris : documents[u] = TextKnownField /\ diagnostics[u] # << >>


\* C21: a condition snippet inserted with the cursor right after the "[" that
\* opens an enabling or unlocking array starts with a line break; each of its
\* lines is indented by the indentation of the array's line, one indent unit
\* of the document, and one more unit for each level of the line in the
\* snippet; and it ends with a line break and the indentation of the array's
\* line exactly when the array closes on the line it opens on.
C21_SnippetAfterBracketIsIndented ==
    (/\ call.fn = "applyIndentationToSnippet"
     /\ call.listKey = "enabling"
     /\ call.offset = PlaceOf(call.text, "["))
        => LET text == call.text
               arrayLine == LineAt(text, PlaceOf(text, "[") - 1)
               arrayIndent == Leading(Split(text)[arrayLine + 1])
               unit == DetermineIndentUnit(text)
               lines == SnippetLines(call.arg, 0, << >>)
               closesOnLine == LineAt(text, CloseOf(text, PlaceOf(text, "[")) - 1) = arrayLine
               body == JoinLines([n \in DOMAIN lines |->
                          arrayIndent \o unit \o Repeat(unit, lines[n].depth)
                             \o lines[n].content
                             \o (IF n = Len(lines) /\ call.needsComma THEN << "," >>
                                 ELSE << >>)])
           IN call.res = << Newline >> \o body
                            \o (IF closesOnLine THEN << Newline >> \o arrayIndent ELSE << >>)


\* C22: when the text of the document gives no tree, hover context
\* resolution, snippet classification, both field completion resolvers and
\* the energy renderer snippet predicate return no context, completion
\* returns the empty list and validation publishes no diagnostic.
C22_NoTreeNoContext ==
    (call.fn = "requests" /\ call.arg = NoTree)
        => /\ call.hover = NoHover
           /\ call.snippetContext = "undefined"
           /\ ~call.abilityFields
           /\ ~call.energyFields
           /\ ~call.energySnippets
           /\ call.res = "none"
           /\ call.diagnostics = << >>

\* the requests were made on an energy beams file without a tree while the
\* snapshots held records with fields
C22_Witness ==
    /\ call.fn = "requests" /\ call.arg = NoTree
    /\ call.fsPath = BeamsPath
    /\ call.known # {}
    /\ call.res = "none"

\* C23: when the cursor lies within the key of a property, completion offers
\* no whole-entity snippets of any kind: it returns field names or nothing.
C23_NoSnippetsInKeys ==
    (call.fn = "requests" /\ call.cursor.at = "key")
        => call.res \in { "fields", "none" }

\* C24: hover gives an entity or field reference only when the enclosing
\* object sits inside the abilities map or, in an energy beams document, is
\* an element of the root-level array; in an energy beams document an object
\* that is no element of the root-level array gives no energy_renderer hover
\* context.
C24_HoverOnlyInRootContainers ==
    (call.fn = "requests" /\ call.hover.found)
        => LET object == call.hover.object
               beams == IsEnergyBeamsFilePath(call.fsPath)
               inAbilities == \E n \in 1..(Len(object) - 1) : object[n] = "abilities"
               inRootArray == IsEnergyBeamEntryObjectContext(call.arg, object)
           IN /\ inAbilities \/ (beams /\ inRootArray)
              /\ (beams /\ ~inRootArray) => call.hover.docKind # "energy_renderer"

\* C25: snippet classification answers "condition" only when the cursor is
\* inside an enabling or unlocking array that is the value of that key of the
\* conditions object of an ability entry of the abilities map.
C25_ConditionOnlyInConditionLists ==
    (call.fn = "requests" /\ call.snippetContext = "condition")
        => \E list \in Prefixes(call.cursor.addr) :
              /\ ValueAt(call.arg, list).t = "array"
              /\ IsConditionList(call.arg, list)


Fairness ==
    /\ \A k \in Kinds :
          /\ SF_vars(\E t \in timers[k] : TimerFires(k, t))
          /\ WF_vars(\E initial \in BOOLEAN : \E watchOk \in EnvWatchOk(k) :
                        \E io \in EnvOutcomes(k) : ReloadOf(k, initial, io, watchOk))
    /\ WF_vars(InitializeReturn)

FairSpec == Spec /\ Fairness

\* the timeout scheduleReload armed last for kind has fired
TimerFired(kind) ==
    /\ watchStates[kind].timer # NoTimer
    /\ watchStates[kind].timer \notin timers[kind]

\* a completing reload that finds none of the kind's source files, with a docs
\* root configured, records the docs-root folder as the watch target
C28_FolderTargetWhenMissing ==
    [][\A k \in Kinds : Completes(k) =>
          \A io \in EnvOutcomes(k) : \A initial \in BOOLEAN : \A watchOk \in EnvWatchOk(k) :
             (/\ ReloadOf(k, initial, io, watchOk)
              /\ ~SourceFound(k, io)
              /\ preferredSources.docsRoot # Undefined)
                => watchStates'[k].target = [kind |-> "folder", path |-> preferredSources.docsRoot]]_vars

\* the callback of a folder watcher arms the timer of its kind, and of no
\* other kind, for a file name ending in .html and does nothing for another
\* name
C28_HtmlChangeSchedules ==
    [][\A k \in Kinds : \A w \in fsWatchers[k] : \A html \in BOOLEAN :
          (FsWatchCallback(k, w, html) /\ w.target.kind = "folder")
             => IF html
                THEN /\ Cardinality(timers'[k]) = 1
                     /\ watchStates'[k].timer \in timers'[k]
                     /\ \A j \in Kinds \ { k } : timers'[j] = timers[j]
                ELSE UNCHANGED watching]_vars

\* a completing reload that finds the source file while the folder is watched
\* closes the folder watcher and, fs.watch succeeding, watches the file
C28_FoundFileReplacesWatcher ==
    [][\A k \in Kinds : Completes(k) =>
          \A io \in EnvOutcomes(k) : \A initial \in BOOLEAN :
             (/\ ReloadOf(k, initial, io, TRUE)
              /\ SourceFound(k, io) /\ ~io.throws
              /\ watchStates[k].target.kind = "folder")
                => /\ watchStates'[k].target.kind = "file"
                   /\ watchStates'[k].target.path \in io.files
                   /\ Cardinality(fsWatchers'[k]) = 1
                   /\ \A w \in fsWatchers'[k] :
                         w.target = watchStates'[k].target /\ w.id = watchStates'[k].watcher]_vars

\* a reload scheduled while the folder is watched eventually starts, unless
\* the session is shut down first
C28_ScheduledReloadStarts ==
    \A k \in Kinds :
        (watchStates[k].target.kind = "folder" /\ timers[k] # {})
            ~> (TimerFired(k) \/ session = "shutdown")

\* C28: when none of a kind's source files exists and a docs root is
\* configured, the kind's watch target is the docs-root folder; a later change
\* to a file of that folder whose name ends in .html schedules a reload of the
\* kind and a change to another name schedules nothing; a reload that then
\* finds the source file replaces the folder watcher with a watcher on the
\* file; and the reload so scheduled eventually starts, so that a source file
\* created after startup is eventually loaded.
C28_CreatedSourceIsLoaded ==
    /\ C28_FolderTargetWhenMissing
    /\ C28_HtmlChangeSchedules
    /\ C28_FoundFileReplacesWatcher
    /\ C28_ScheduledReloadStarts

\* The fairness initialization rests on, and no more: the I/O an initial
\* reload awaits returns (with any outcome), and onInitialize resumes once its
\* three promises are settled.
InitFairness ==
    /\ \A k \in Kinds :
          WF_vars(k \in initialLoads /\ \E watchOk \in EnvWatchOk(k) :
                     \E io \in EnvOutcomes(k) : ReloadOf(k, TRUE, io, watchOk))
    /\ WF_vars(InitializeReturn)

InitSpec == Spec /\ InitFairness

\* the initial reload of kind has completed: the kind's list and map are the
\* list some I/O outcome gives (the loaded list, or the fallback for a failed
\* load) and the map built from it, and the target recorded is that outcome's
InitialReloadDone(kind) ==
    /\ kind \notin initialLoads
    /\ \E io \in IoOutcomes(kind, preferredSources) :
          /\ SnapshotList(kind) = ReloadResult(kind, io).list
          /\ SnapshotMap(kind) = BuildAbilityMap(SnapshotList(kind))
          /\ watchStates[kind].target = ReloadResult(kind, io).target

\* C29: the initialize response is returned only after the initial reloads of
\* all three kinds have completed, each having published its list or its
\* fallback, recorded its watch target and validated the open documents
\* again, whichever of them failed; and initialization never fails: every
\* initialization that has begun returns its response.
C29_InitializeAwaitsAllReloads ==
    /\ [][session' = "ready" /\ session # "ready"
            => /\ session = "initializing"
               /\ \A k \in Kinds : InitialReloadDone(k)
               /\ \A u \in Uris :
                     documents[u] # Closed
                        => diagnostics[u] = ValidateDocument(documents[u], abilityMap)
               /\ UNCHANGED << snapshots, watching, initialLoads, reloading, docs >>]_vars
    /\ [][\A k \in Kinds : (k \in initialLoads /\ k \notin initialLoads')
            => /\ InitialReloadDone(k)'
               /\ session' = "initializing"]_vars
    /\ (session = "initializing") ~> (session = "ready")

\* initialization has returned although the initial load of the abilities
\* failed: the fallback list is published and the docs-root folder is watched
C29_Witness ==
    /\ session = "ready"
    /\ abilities = CreateFallbackAbilities
    /\ watchStates["ability"].target.kind = "folder"
    /\ watchStates["ability"].timer = NoTimer
    /\ reloading["ability"] = 0

\* C30: the diagnostics last published for a closed document are the empty
\* list: closing a document publishes the empty list for it, and while it
\* stays closed no step (a completing reload with its validation of all
\* documents included) publishes anything for it.
C30_ClosedDocumentHasNoDiagnostics ==
    /\ [](\A u \in Uris : documents[u] = Closed => diagnostics[u] = << >>)
    /\ [][\A u \in Uris :
             documents'[u] = Closed => diagnostics'[u] = << >>]_vars

\* a document is closed while the abilities published are a loaded list that
\* gives an open document diagnostics, after a reload started by a timer has
\* completed
C30_Witness ==
    /\ session = "ready"
    /\ \E u \in Uris : documents[u] = Closed /\ diagnostics[u] = << >>
    /\ abilities = << Rec("a:x", {"power"}) >>
    /\ ValidateDocument(TextKnownField, abilityMap) # << >>
    /\ TimerFired("ability")
    /\ reloading["ability"] = 0
====
